---- MODULE Spec2Model ----
(***************************************************************************)
(* The match simulation engine of textfootball/core/match_simulator.py     *)
(* (MatchTeam, MatchSimulator, get_prematch_odds) and the morale extension *)
(* of "match_simulator - Copy.py", as a state machine.                     *)
(*                                                                         *)
(* Numbers: ratings are kept in thousandths (effective_skill 57.4 is       *)
(* 57400), probabilities are kept by their class ("zero", "mid", "one"):   *)
(* a roll r in [0,1) is below prob for some r iff prob > 0 and at or above *)
(* prob for some r iff prob < 1, which is all the control flow reads.      *)
(***************************************************************************)
EXTENDS Integers, Sequences, FiniteSets, TLC

VARIABLES
    pc,                  \* position inside simulate() / get_prematch_odds()
    team_a,              \* MatchTeam of team A (home): model, lineup, strengths, score
    team_b,              \* MatchTeam of team B (away)
    morale,              \* Player.morale of every player of both rosters
    logging_enabled,
    is_knockout,
    minute,
    zone,                \* "M", "A", "B"
    possession,          \* "A" or "B" (self.team_a / self.team_b)
    free_kick_events,    \* the queue built by _generate_free_kicks
    shootout_score_a,
    shootout_score_b,
    winner_on_penalties, \* a team name, or None
    so,                  \* locals of resolve_shootout
    log_len,             \* len(self.log), counted up to LogLenCap
    log_new,             \* the entries the latest step appended to self.log
    log_count,           \* entries of self.log per kind, counted up to LogCountCap
    mo,                  \* state of the morale updater and of the odds loop
    call                 \* a function called on its own: arguments and result

vars == <<pc, team_a, team_b, morale, logging_enabled, is_knockout, minute, zone,
          possession, free_kick_events, shootout_score_a, shootout_score_b,
          winner_on_penalties, so, log_len, log_new, log_count, mo, call>>

None == "None"
NoIds == {}

\* no function is called on its own in a simulation
NoCall == [fn |-> None]

Min(a, b) == IF a <= b THEN a ELSE b
Max(a, b) == IF a >= b THEN a ELSE b
Abs(a) == IF a >= 0 THEN a ELSE 0 - a

(***************************************************************************)
(* Bounds of the model.                                                    *)
(***************************************************************************)
MaxGoals == 1            \* goals a side can score in regulation
MaxShootoutGoals == 6    \* level tally up to which sudden death is followed
LogLenCap == 3           \* log_len counts up to here
LogCountCap == 3         \* log_count counts up to here

(***************************************************************************)
(* Tunables of match_simulator.py.                                         *)
(***************************************************************************)
Position == <<"GOALKEEPER", "DEFENDER", "MIDFIELDER", "FORWARD">>

FORMATION == [GOALKEEPER |-> 1, DEFENDER |-> 4, MIDFIELDER |-> 4, FORWARD |-> 2]

HOME_ADVANTAGE_BOOST == 104        \* 1.04, in hundredths
MIDFIELD_SCALING == 32
ATTACK_SCALING == 32
GOAL_CONVERSION_FACTOR == 100      \* 1.00, in hundredths
DEF_GK_BLEND == 18                 \* 0.18, in hundredths
GK_SHOT_SCALING == 30
\* the extreme draws of uniform(0.85, 1.15) and uniform(0.92, 1.08), in
\* hundredths: the rating difference is monotone in both
SHOOTER_NOISE == {85, 115}
GK_NOISE == {92, 108}
FK_SHOT_SCALING == 24
FK_GOAL_CONVERSION_FACTOR_BASE == 60
PENALTY_SCALING == 20
PENALTY_CONVERSION_FACTOR == 115   \* 1.15, in hundredths
SHOT_DISTANCE_MIN == 5             \* metres ("match_simulator - Copy.py")
SHOT_DISTANCE_MAX == 35
OPTIMAL_SHOT_DISTANCE == 12
DISTANCE_PENALTY_FACTOR == 3       \* 0.03, in hundredths
MIN_FREE_KICKS == 10               \* max(10, int(gauss(...)))
MATCH_MINUTES == 90
HALFTIME_MINUTE == 45
MAX_TIME_INCREMENT == 6
SQUAD_SIZE == 11
SHOOTOUT_ROUNDS == 5

\* zone -> (likelihood, p_direct, p_indirect_attack, def_mod), in hundredths
FK_ZONES == [DEEP      |-> [p_direct |-> 0,  p_indirect |-> 5,  def_mod |-> 100],
             MIDDLE    |-> [p_direct |-> 2,  p_indirect |-> 40, def_mod |-> 90],
             ATTACKING |-> [p_direct |-> 30, p_indirect |-> 70, def_mod |-> 75],
             DANGEROUS |-> [p_direct |-> 85, p_indirect |-> 15, def_mod |-> 60]]

FKZoneNames == <<"DEEP", "MIDDLE", "ATTACKING", "DANGEROUS">>

\* dist_factor of resolve_direct_free_kick, in tenths
DistFactor(z) ==
    IF z = "DANGEROUS" THEN 13
    ELSE IF z = "ATTACKING" THEN 8
    ELSE IF z = "MIDDLE" THEN 3
    ELSE 1

(***************************************************************************)
(* Player (models/player.py).                                              *)
(***************************************************************************)
TRAIT_THRESHOLD == 65
TRAIT_MULTIPLIER == 115            \* PlayerTrait value[3] = 1.15
PLAYER_MORALE_EFFECT_ACTIVE == 0   \* player.py MORALE_EFFECT_ACTIVE
MORALE_IMPACT_FACTOR == 10         \* 0.10, in hundredths

Pl(id, pos, skill, shape, pt, ps, fk, pers) ==
    [id |-> id, position |-> pos, skill |-> skill, shape |-> shape,
     penalty_taking |-> pt, penalty_saving |-> ps, free_kick_ability |-> fk,
     personality |-> pers]

\* effective_skill with the morale effect switched on
effective_skill_with_morale(p, m) ==
    LET base_effectiveness == p.skill * (300 + p.shape * 7)
        morale_multiplier ==
            IF m >= 100 THEN 1000
            ELSE 1000 - (((100 - m) * MORALE_IMPACT_FACTOR) \div 10)
    IN  (base_effectiveness * morale_multiplier) \div 1000

\* Player.effective_skill, in thousandths; m is the player's morale.
effective_skill(p, m) ==
    LET base_effectiveness == p.skill * (300 + p.shape * 7)
        morale_multiplier ==
            IF PLAYER_MORALE_EFFECT_ACTIVE = 1
            THEN IF m >= 100 THEN 1000
                 ELSE 1000 - (((100 - m) * MORALE_IMPACT_FACTOR) \div 10)
            ELSE 1000
    IN  (base_effectiveness * morale_multiplier) \div 1000

has_penalty_trait(p) == p.penalty_taking >= TRAIT_THRESHOLD

has_penalty_stopper_trait(p) ==
    p.position = "GOALKEEPER" /\ p.penalty_saving >= TRAIT_THRESHOLD

has_free_kick_trait(p) == p.free_kick_ability >= TRAIT_THRESHOLD

\* the specialist ratings, in thousandths: attr * (0.5 + 0.5 * shape / 100)
effective_penalty_taking(p) ==
    LET base_ability == p.penalty_taking * (500 + p.shape * 5)
    IN  IF has_penalty_trait(p)
        THEN (base_ability * TRAIT_MULTIPLIER) \div 100
        ELSE base_ability

effective_penalty_saving(p) ==
    LET base_ability == p.penalty_saving * (500 + p.shape * 5)
    IN  IF has_penalty_stopper_trait(p)
        THEN (base_ability * TRAIT_MULTIPLIER) \div 100
        ELSE base_ability

effective_fk_ability(p) ==
    LET base_ability == p.free_kick_ability * (500 + p.shape * 5)
    IN  IF has_free_kick_trait(p)
        THEN (base_ability * TRAIT_MULTIPLIER) \div 100
        ELSE base_ability

(***************************************************************************)
(* Team models: the rosters the simulator is given.  Player attributes are *)
(* read-only during a simulation; morale is the state variable morale.     *)
(***************************************************************************)
GK == "GOALKEEPER"
DF == "DEFENDER"
MF == "MIDFIELDER"
FW == "FORWARD"

\* a complete squad: two goalkeepers, five defenders, five midfielders, two forwards
LionsPlayers ==
    << Pl(101, GK, 60, 90, 30, 70, 40, "Professional"),
       Pl(102, GK, 50, 100, 30, 60, 40, "Stoic"),
       Pl(103, DF, 70, 100, 50, 20, 50, "Professional"),
       Pl(104, DF, 65, 100, 55, 20, 66, "Ambitious"),
       Pl(105, DF, 60, 100, 45, 20, 50, "Stoic"),
       Pl(106, DF, 55, 100, 40, 20, 50, "Volatile"),
       Pl(107, DF, 50, 80, 60, 20, 50, "Professional"),
       Pl(108, MF, 72, 100, 66, 20, 70, "Ambitious"),
       Pl(109, MF, 68, 90, 62, 20, 50, "Professional"),
       Pl(110, MF, 64, 100, 58, 20, 50, "Volatile"),
       Pl(111, MF, 60, 100, 58, 20, 50, "Stoic"),
       Pl(112, MF, 40, 100, 80, 20, 50, "Professional"),
       Pl(113, FW, 80, 100, 75, 20, 60, "Ambitious"),
       Pl(114, FW, 75, 60, 70, 20, 55, "Professional") >>

\* a complete squad of thirteen
TigersPlayers ==
    << Pl(201, GK, 55, 100, 20, 50, 40, "Professional"),
       Pl(202, DF, 62, 100, 50, 20, 50, "Professional"),
       Pl(203, DF, 62, 100, 52, 20, 50, "Stoic"),
       Pl(204, DF, 58, 90, 48, 20, 50, "Volatile"),
       Pl(205, DF, 57, 100, 45, 20, 50, "Professional"),
       Pl(206, MF, 66, 100, 64, 20, 65, "Ambitious"),
       Pl(207, MF, 63, 100, 60, 20, 50, "Professional"),
       Pl(208, MF, 61, 80, 57, 20, 50, "Professional"),
       Pl(209, MF, 59, 100, 55, 20, 50, "Stoic"),
       Pl(210, FW, 74, 100, 68, 20, 50, "Volatile"),
       Pl(211, FW, 70, 100, 61, 20, 50, "Professional"),
       Pl(212, FW, 45, 100, 40, 20, 50, "Professional"),
       Pl(213, GK, 40, 100, 20, 45, 40, "Professional") >>

\* ten players only: cannot field eleven
ColtsPlayers == SubSeq(TigersPlayers, 1, 10)

\* twelve outfield players and no goalkeeper
RoversPlayers ==
    [i \in 1..12 |-> Pl(300 + i,
                        IF i <= 5 THEN DF ELSE IF i <= 10 THEN MF ELSE FW,
                        50 + i, 100, 40 + i, 20, 50, "Professional")]

WolvesPlayers ==
    [i \in 1..12 |-> Pl(400 + i,
                        IF i <= 5 THEN DF ELSE IF i <= 10 THEN MF ELSE FW,
                        62 - i, 90, 60 - i, 20, 50, "Stoic")]

\* seven goalkeepers and four defenders
GlovesPlayers ==
    [i \in 1..11 |-> Pl(500 + i, IF i <= 7 THEN GK ELSE DF,
                        50 + i, 100, 40 + i, 60, 50, "Professional")]

\* every outfield player a perfect penalty taker
AcesPlayers ==
    [i \in 1..12 |-> Pl(600 + i,
                        IF i = 1 THEN GK
                        ELSE IF i <= 5 THEN DF
                        ELSE IF i <= 9 THEN MF ELSE FW,
                        55 + i, 100, 100, 50, 50, "Professional")]

\* a second squad of perfect penalty takers
StarsPlayers ==
    [i \in 1..12 |-> Pl(700 + i,
                        IF i = 1 THEN GK
                        ELSE IF i <= 5 THEN DF
                        ELSE IF i <= 9 THEN MF ELSE FW,
                        50 + i, 100, 100, 50, 50, "Stoic")]

\* Team.players of the team model called name
TeamPlayers(name) ==
    CASE name = "Lions" -> LionsPlayers
      [] name = "Tigers" -> TigersPlayers
      [] name = "Colts" -> ColtsPlayers
      [] name = "Rovers" -> RoversPlayers
      [] name = "Wolves" -> WolvesPlayers
      [] name = "Gloves" -> GlovesPlayers
      [] name = "Aces" -> AcesPlayers
      [] name = "Stars" -> StarsPlayers

Range(s) == {s[i] : i \in DOMAIN s}

\* the Player row with primary key id (ids are 100 * team + place in the roster)
Player(id) ==
    LET roster == CASE id \div 100 = 1 -> LionsPlayers
                    [] id \div 100 = 2 -> TigersPlayers
                    [] id \div 100 = 3 -> RoversPlayers
                    [] id \div 100 = 4 -> WolvesPlayers
                    [] id \div 100 = 5 -> GlovesPlayers
                    [] id \div 100 = 6 -> AcesPlayers
                    [] id \div 100 = 7 -> StarsPlayers
    IN  roster[id % 100]

PlayerIds(name) == {p.id : p \in Range(TeamPlayers(name))}

\* the players left in the order they had
RosterOrder(players, keys) == players

(***************************************************************************)
(* MatchTeam.                                                              *)
(***************************************************************************)
\* sorted(players, key=..., reverse=True): descending by key, players of equal
\* key in the order they had.  The player at place i goes to the place that
\* counts the players before it in the result.
SortedBy(players, keys) ==
    LET n == Len(players)
        Before(j, i) == \/ keys[j] > keys[i]
                        \/ keys[j] = keys[i] /\ j < i
        Place(i) == 1 + Cardinality({j \in 1..n : Before(j, i)})
    IN  [r \in 1..n |-> players[CHOOSE i \in 1..n : Place(i) = r]]

Take(s, n) == SubSeq(s, 1, Min(n, Len(s)))

EmptyLineup == [pos \in Range(Position) |-> <<>>]

\* MatchTeam.get_starting_11
get_starting_11(lineup) ==
    lineup["GOALKEEPER"] \o lineup["DEFENDER"] \o lineup["MIDFIELDER"] \o lineup["FORWARD"]

\* no player is taken for one of the players selected
NeverInSeq(p, s) == FALSE

\* p in self.get_starting_11()
InSeq(p, s) == \E i \in DOMAIN s : s[i].id = p.id

\* the for-loop of select_lineup over FORMATION.items(), positions 1..k done
RECURSIVE FormationPick(_, _)
FormationPick(sorted_players, k) ==
    IF k = 0 THEN EmptyLineup
    ELSE LET lineup == FormationPick(sorted_players, k - 1)
             pos == Position[k]
             candidates == SelectSeq(sorted_players,
                               LAMBDA p : p.position = pos
                                          /\ ~InSeq(p, get_starting_11(lineup)))
             selected == Take(candidates, FORMATION[pos])
         IN  [lineup EXCEPT ![pos] = @ \o selected]

\* every player of ps put in front of the players of their position
RECURSIVE AppendAllFront(_, _)
AppendAllFront(lineup, ps) ==
    IF ps = <<>> THEN lineup
    ELSE AppendAllFront([lineup EXCEPT ![Head(ps).position] = <<Head(ps)>> \o @],
                        Tail(ps))

\* for p in ps: lineup[p.position].append(p)
RECURSIVE AppendAll(_, _)
AppendAll(lineup, ps) ==
    IF ps = <<>> THEN lineup
    ELSE AppendAll([lineup EXCEPT ![Head(ps).position] = Append(@, Head(ps))], Tail(ps))

\* MatchTeam.select_lineup: the lineup chosen from players; mor is the morale map
select_lineup(players, fixed_lineup_ids, mor) ==
    IF fixed_lineup_ids # NoIds
    THEN LET fixed_players == SelectSeq(players, LAMBDA p : p.id \in fixed_lineup_ids)
         IN  AppendAll(EmptyLineup, fixed_players)
    ELSE LET sorted_players == SortedBy(players,
                                      [i \in DOMAIN players |->
                                          effective_skill(players[i], mor[players[i].id])])
             lineup == FormationPick(sorted_players, Len(Position))
             squad_count == Len(get_starting_11(lineup))
         IN  IF squad_count < SQUAD_SIZE
             THEN LET remaining_players ==
                          SelectSeq(sorted_players,
                                    LAMBDA p : ~InSeq(p, get_starting_11(lineup)))
                  IN  AppendAll(lineup, Take(remaining_players, SQUAD_SIZE - squad_count))
             ELSE lineup

\* MatchTeam.get_goalkeeper: <<>> stands for None
get_goalkeeper(lineup) == Take(lineup["GOALKEEPER"], 1)

\* the ids of a sequence of players
Ids(ps) == [i \in DOMAIN ps |-> ps[i].id]

\* the candidates of get_random_player([FORWARD, MIDFIELDER])
ShooterCandidates(lineup) == lineup["FORWARD"] \o lineup["MIDFIELDER"]

\* max(starting_11, key=...): the first player holding the largest key
FirstMax(ps, keys) ==
    IF ps = <<>> THEN <<>>
    ELSE LET i == CHOOSE i \in DOMAIN ps :
                      /\ \A j \in DOMAIN ps : keys[j] <= keys[i]
                      /\ \A j \in 1..(i - 1) : keys[j] < keys[i]
         IN  <<ps[i]>>

_find_best_penalty_taker(lineup) ==
    LET starting_11 == get_starting_11(lineup)
    IN  FirstMax(starting_11, [i \in DOMAIN starting_11 |-> starting_11[i].penalty_taking])

_find_best_fk_taker(lineup) ==
    LET starting_11 == get_starting_11(lineup)
    IN  FirstMax(starting_11,
                 [i \in DOMAIN starting_11 |-> starting_11[i].free_kick_ability])

\* sum of effective_skill over a sequence of players
RECURSIVE SumEff(_, _)
SumEff(ps, mor) ==
    IF ps = <<>> THEN 0
    ELSE effective_skill(Head(ps), mor[Head(ps).id]) + SumEff(Tail(ps), mor)

\* MatchTeam.calculate_zonal_strength, in 1/100000: base strength (thousandths)
\* times the boost (hundredths)
base_zonal_strength(lineup, pos, mor) ==
    IF lineup[pos] # <<>>
    THEN SumEff(lineup[pos], mor) \div Len(lineup[pos])
    ELSE 20000

\* faulty variant of zonal_strength: is_home is not read
zonal_strength_boosted(lineup, pos, is_home, mor) ==
    base_zonal_strength(lineup, pos, mor) * HOME_ADVANTAGE_BOOST

zonal_strength(lineup, pos, is_home, mor) ==
    IF is_home
    THEN base_zonal_strength(lineup, pos, mor) * HOME_ADVANTAGE_BOOST
    ELSE base_zonal_strength(lineup, pos, mor) * 100

\* MatchTeam.__init__
MatchTeam(team_model, is_home, fixed_lineup_ids, mor) ==
    LET lineup == select_lineup(TeamPlayers(team_model), fixed_lineup_ids, mor)
    IN  [team |-> team_model,
         is_home |-> is_home,
         fixed_lineup_ids |-> fixed_lineup_ids,
         lineup |-> [pos \in Range(Position) |-> Ids(lineup[pos])],
         base_zonal_strength |->
             [pos \in Range(Position) |-> base_zonal_strength(lineup, pos, mor)],
         zonal_strength |->
             [pos \in Range(Position) |-> zonal_strength(lineup, pos, is_home, mor)],
         best_fk_taker |-> Ids(_find_best_fk_taker(lineup)),
         best_penalty_taker |-> Ids(_find_best_penalty_taker(lineup)),
         score |-> 0]

(***************************************************************************)
(* Probability models, by class.                                           *)
(***************************************************************************)
\* the contest decided for the stronger side b instead of a
logistic_probability_of_b(strength_a, strength_b, scaling_factor) ==
    LET diff == strength_b - strength_a
    IN  IF 0 - diff > 10 * scaling_factor * 100000 THEN "zero"
        ELSE IF 0 - diff < 0 - 10 * scaling_factor * 100000 THEN "one"
        ELSE "mid"

\* math.exp called with every exponent
exp_calls_unclamped(strength_a, strength_b, scaling_factor) ==
    << <<0 - (strength_a - strength_b), scaling_factor>> >>

\* logistic_probability, lines 66-69: the exponents math.exp is called with,
\* each the fraction <<-diff in 1/100000, scaling_factor>>
exp_calls(strength_a, strength_b, scaling_factor) ==
    LET diff == strength_a - strength_b
    IN  IF 0 - diff > 10 * scaling_factor * 100000 THEN <<>>
        ELSE IF 0 - diff < 0 - 10 * scaling_factor * 100000 THEN <<>>
        ELSE << <<0 - diff, scaling_factor>> >>

\* math.exp raises OverflowError for an exponent of 710 or more (line 70)
exp_overflows(exponent) == exponent[1] \div 100000 >= 710 * exponent[2]

\* logistic_probability: strengths in 1/100000.  1/(1+exp(e)) with e in
\* [-10, 10] lies strictly between 0 and 1.
logistic_probability(strength_a, strength_b, scaling_factor) ==
    LET diff == strength_a - strength_b
    IN  IF 0 - diff > 10 * scaling_factor * 100000 THEN "zero"
        ELSE IF 0 - diff < 0 - 10 * scaling_factor * 100000 THEN "one"
        ELSE "mid"

\* -ln(c/1000 - 1) in 1/100000 for a conversion factor c (thousandths) above 1:
\* base * c/1000 >= 1 iff exp(exponent) <= c/1000 - 1
CertainExponent(c) ==
    CASE c = 1150 -> 189712
      [] c = 1100 -> 230259
      [] c = 1070 -> 265926
      [] c = 1060 -> 281341
      [] c = 1050 -> 299573
      [] c = 1040 -> 321888
      [] c = 1030 -> 350656
      [] c = 1020 -> 391202
      [] c = 1010 -> 460517
      [] OTHER -> 0

\* base * conversion_factor returned without min(1.0, ...): "above" is a value
\* above 1.0
goal_probability_unclamped(shooter_eff, keeper_eff, s_noise, k_noise, scaling, conversion_factor) ==
    LET rand_shooter == shooter_eff * s_noise
        rand_keeper == keeper_eff * k_noise
        diff == rand_shooter - rand_keeper
        base == logistic_probability(rand_shooter, rand_keeper, scaling)
    IN  IF base = "zero" \/ conversion_factor = 0 THEN "zero"
        ELSE IF base = "one"
             THEN (IF conversion_factor > 1000 THEN "above"
                   ELSE IF conversion_factor = 1000 THEN "one" ELSE "mid")
        ELSE IF conversion_factor > 1000
                /\ diff > CertainExponent(conversion_factor) * scaling
             THEN "above"
        ELSE "mid"

\* goal_probability: ratings in thousandths, noise in hundredths,
\* conversion_factor in thousandths
goal_probability(shooter_eff, keeper_eff, s_noise, k_noise, scaling, conversion_factor) ==
    LET rand_shooter == shooter_eff * s_noise
        rand_keeper == keeper_eff * k_noise
        diff == rand_shooter - rand_keeper
        base == logistic_probability(rand_shooter, rand_keeper, scaling)
    IN  IF base = "zero" \/ conversion_factor = 0 THEN "zero"
        ELSE IF base = "one" THEN (IF conversion_factor >= 1000 THEN "one" ELSE "mid")
        ELSE IF conversion_factor > 1000
                /\ diff >= CertainExponent(conversion_factor) * scaling
             THEN "one"
        ELSE "mid"

\* goal_probability of "match_simulator - Copy.py", lines 93-98: the distance
\* modifier in thousandths for a distance in metres
distance_modifier(distance) ==
    IF distance < OPTIMAL_SHOT_DISTANCE
    THEN Min(1100, 1000 + (OPTIMAL_SHOT_DISTANCE - distance) * 10)
    ELSE LET penalty == (distance - OPTIMAL_SHOT_DISTANCE) * DISTANCE_PENALTY_FACTOR * 10
         IN  Max(100, 1000 - penalty)

\* lines 93-101: the final conversion factor, in thousandths, of a base factor
\* in thousandths; distance is <<>> for None, else <<metres>>
final_conversion_factor(base_conversion_factor, distance) ==
    IF distance # <<>>
    THEN (base_conversion_factor * distance_modifier(distance[1])) \div 1000
    ELSE base_conversion_factor

\* the values of (roll < prob) that some roll in [0, 1) gives
Rolls(prob) == {hit \in BOOLEAN : IF hit THEN prob # "zero" ELSE prob # "one"}

(***************************************************************************)
(* MatchSimulator: the steps of a match on a record st of the fields they  *)
(* write (minute, zone, possession, the two scores) and log, the entries   *)
(* they append.  Each returns the set of results its random draws can give.*)
(***************************************************************************)
Team(side) == IF side = "A" THEN team_a ELSE team_b
Other(side) == IF side = "A" THEN "B" ELSE "A"

Entry(mn, importance, event_type, text, shown) ==
    [minute |-> mn, importance |-> importance, event_type |-> event_type,
     text |-> text, shown |-> shown]

\* log_event, before the logging_enabled test (made once, in Logged)
log_event(st, text, importance, event_type) ==
    [st EXCEPT !.log = Append(@, Entry(st.minute, importance, event_type, text, <<>>))]

log_score(st, text, importance, event_type, a, b) ==
    [st EXCEPT !.log = Append(@, Entry(st.minute, importance, event_type, text, <<a, b>>))]

AddGoal(st, side) ==
    IF side = "A" THEN [st EXCEPT !.score_a = @ + 1] ELSE [st EXCEPT !.score_b = @ + 1]

ToMidfield(st, side) == [st EXCEPT !.possession = side, !.zone = "M"]

\* faulty variant of in_game_penalty: the goal entry prints the scores as they
\* are before the goal is counted
in_game_penalty_stale_score(st, attacker, defender, is_goal) ==
    LET logged ==
            IF is_goal
            THEN log_score(st, "converts", "goal", "GOAL_PENALTY", st.score_a, st.score_b)
            ELSE log_event(st, "penalty missed", "miss", "MISS_PENALTY")
        scored == IF is_goal THEN AddGoal(logged, attacker) ELSE logged
    IN  ToMidfield(scored, defender)

\* resolve_penalty_kick, lines 346-355, for an in-game penalty: the entry
\* logged, the goal counted and the restart from midfield
in_game_penalty(st, attacker, defender, is_goal) ==
    LET logged ==
            IF is_goal
            THEN log_score(st, "converts", "goal", "GOAL_PENALTY",
                           IF attacker = "A" THEN st.score_a + 1 ELSE st.score_a,
                           IF attacker = "B" THEN st.score_b + 1 ELSE st.score_b)
            ELSE log_event(st, "penalty missed", "miss", "MISS_PENALTY")
        scored == IF is_goal THEN AddGoal(logged, attacker) ELSE logged
    IN  ToMidfield(scored, defender)

\* faulty variant of penalty_outcome: is_shootout_kick is not read
penalty_outcome_in_game(st, attacker, defender, is_goal, is_shootout_kick) ==
    in_game_penalty(st, attacker, defender, is_goal)

\* resolve_penalty_kick, lines 341-355: what a kick with outcome is_goal does
penalty_outcome(st, attacker, defender, is_goal, is_shootout_kick) ==
    IF is_shootout_kick
    THEN log_event(st, IF is_goal THEN "scores" ELSE "saved", "high", "SHOOTOUT_KICK")
    ELSE in_game_penalty(st, attacker, defender, is_goal)

\* resolve_penalty_kick: the set of [st, is_goal]; taker is <<>> (None) or <<id>>
resolve_penalty_kick(st, attacker, defender, taker, is_shootout_kick) ==
    LET tk == IF taker = <<>> THEN Team(attacker).best_penalty_taker ELSE taker
        goalkeeper == get_goalkeeper(Team(defender).lineup)
    IN  IF tk = <<>> \/ goalkeeper = <<>>
        THEN {[st |-> st, is_goal |-> FALSE]}
        ELSE LET probs == {goal_probability(effective_penalty_taking(Player(tk[1])),
                                            effective_penalty_saving(Player(goalkeeper[1])),
                                            ns, nk, PENALTY_SCALING,
                                            PENALTY_CONVERSION_FACTOR * 10) :
                               ns \in SHOOTER_NOISE, nk \in GK_NOISE}
                 goals == UNION {Rolls(prob) : prob \in probs}
             IN  {[st |-> penalty_outcome(st, attacker, defender, is_goal,
                                          is_shootout_kick),
                   is_goal |-> is_goal] : is_goal \in goals}

\* faulty variant of resolve_shot: a shot skipped for a missing player leaves
\* zone and possession as they were
resolve_shot_skip_in_place(st, attacker, defender) ==
    LET shooters == ShooterCandidates(Team(attacker).lineup)
        goalkeeper == get_goalkeeper(Team(defender).lineup)
    IN  IF shooters = <<>> \/ goalkeeper = <<>>
        THEN {st}
        ELSE LET probs == {goal_probability(
                               effective_skill(Player(shooters[i]), morale[shooters[i]]),
                               effective_skill(Player(goalkeeper[1]), morale[goalkeeper[1]]),
                               ns, nk, GK_SHOT_SCALING, GOAL_CONVERSION_FACTOR * 10) :
                               i \in DOMAIN shooters, ns \in SHOOTER_NOISE,
                               nk \in GK_NOISE}
                 goals == UNION {Rolls(prob) : prob \in probs}
                 After(is_goal) ==
                     IF is_goal
                     THEN LET scored == AddGoal(st, attacker)
                          IN  log_score(scored, "goal", "goal", "GOAL",
                                        scored.score_a, scored.score_b)
                     ELSE log_event(st, "no goal", "miss", "MISS")
             IN  {ToMidfield(After(is_goal), defender) : is_goal \in goals}

\* resolve_shot
resolve_shot(st, attacker, defender) ==
    LET shooters == ShooterCandidates(Team(attacker).lineup)
        goalkeeper == get_goalkeeper(Team(defender).lineup)
    IN  IF shooters = <<>> \/ goalkeeper = <<>>
        THEN {ToMidfield(st, defender)}
        ELSE LET probs == {goal_probability(
                               effective_skill(Player(shooters[i]), morale[shooters[i]]),
                               effective_skill(Player(goalkeeper[1]), morale[goalkeeper[1]]),
                               ns, nk, GK_SHOT_SCALING, GOAL_CONVERSION_FACTOR * 10) :
                               i \in DOMAIN shooters, ns \in SHOOTER_NOISE,
                               nk \in GK_NOISE}
                 goals == UNION {Rolls(prob) : prob \in probs}
                 After(is_goal) ==
                     IF is_goal
                     THEN LET scored == AddGoal(st, attacker)
                          IN  log_score(scored, "goal", "goal", "GOAL",
                                        scored.score_a, scored.score_b)
                     ELSE log_event(st, "no goal", "miss", "MISS")
             IN  {ToMidfield(After(is_goal), defender) : is_goal \in goals}

\* resolve_attack; defense_modifier in hundredths
resolve_attack(st, attacker, defender, defense_modifier) ==
    LET att_str == Team(attacker).zonal_strength["FORWARD"]
        pure_def == Team(defender).zonal_strength["DEFENDER"]
        gk_str == Team(defender).zonal_strength["GOALKEEPER"]
        def_gate == ((((100 - DEF_GK_BLEND) * pure_def + DEF_GK_BLEND * gk_str) \div 100)
                     * defense_modifier) \div 100
        prob == logistic_probability(att_str, def_gate, ATTACK_SCALING)
        Chance == resolve_shot(log_event(st, "creates a chance", "normal",
                                         "SHOT_OPPORTUNITY"),
                               attacker, defender)
        Penalty == {r.st : r \in resolve_penalty_kick(
                                     log_event(st, "penalty", "high", "PENALTY_AWARDED"),
                                     attacker, defender, <<>>, FALSE)}
        Stop == {log_event(ToMidfield(st, defender), "defense holds", "normal",
                           "DEFENSIVE_STOP")}
    IN  UNION {IF hit THEN Chance ELSE Penalty \cup Stop : hit \in Rolls(prob)}

\* faulty variant of resolve_midfield_battle: a won contest also hands the ball
\* over
resolve_midfield_battle_turnover(st) ==
    LET attacker == st.possession
        defender == Other(st.possession)
        att_str == Team(attacker).zonal_strength["MIDFIELDER"]
        def_str == Team(defender).zonal_strength["MIDFIELDER"]
        prob == logistic_probability(att_str, def_str, MIDFIELD_SCALING)
        Won == log_event([st EXCEPT !.zone = attacker, !.possession = defender],
                         "advances", "normal", None)
        Lost == log_event([st EXCEPT !.possession = defender], "wins the ball",
                          "normal", None)
    IN  {IF hit THEN Won ELSE Lost : hit \in Rolls(prob)}

\* resolve_midfield_battle
resolve_midfield_battle(st) ==
    LET attacker == st.possession
        defender == Other(st.possession)
        att_str == Team(attacker).zonal_strength["MIDFIELDER"]
        def_str == Team(defender).zonal_strength["MIDFIELDER"]
        prob == logistic_probability(att_str, def_str, MIDFIELD_SCALING)
        Won == log_event([st EXCEPT !.zone = attacker], "advances", "normal", None)
        Lost == log_event([st EXCEPT !.possession = defender], "wins the ball",
                          "normal", None)
    IN  {IF hit THEN Won ELSE Lost : hit \in Rolls(prob)}

\* process_event
process_event(st) ==
    IF st.zone = "M" THEN resolve_midfield_battle(st)
    ELSE IF st.zone = "A" THEN resolve_attack(st, "A", "B", 100)
    ELSE resolve_attack(st, "B", "A", 100)

\* resolve_direct_free_kick
resolve_direct_free_kick(st, attacker, defender, fk_zone) ==
    LET taker == Team(attacker).best_fk_taker
        goalkeeper == get_goalkeeper(Team(defender).lineup)
    IN  IF taker = <<>> \/ goalkeeper = <<>>
        THEN {st}
        ELSE LET stepped == log_event(st, "steps up", "high", "DIRECT_FK")
                 final_conv_factor == FK_GOAL_CONVERSION_FACTOR_BASE * DistFactor(fk_zone)
                 probs == {goal_probability(
                               effective_fk_ability(Player(taker[1])),
                               effective_skill(Player(goalkeeper[1]), morale[goalkeeper[1]]),
                               ns, nk, FK_SHOT_SCALING, final_conv_factor) :
                               ns \in SHOOTER_NOISE, nk \in GK_NOISE}
                 goals == UNION {Rolls(prob) : prob \in probs}
                 After(is_goal) ==
                     IF is_goal
                     THEN LET scored == AddGoal(stepped, attacker)
                          IN  log_score(scored, "goal", "goal", "GOAL_FK",
                                        scored.score_a, scored.score_b)
                     ELSE log_event(stepped, "no goal", "miss", "MISS_FK")
             IN  {ToMidfield(After(is_goal), defender) : is_goal \in goals}

\* resolve_free_kick
resolve_free_kick(st, fk_event) ==
    LET attacker == fk_event.team
        defender == Other(attacker)
        z == FK_ZONES[fk_event.zone]
        announced == log_event(st, "free kick", "set_piece", "FREE_KICK")
        Direct == resolve_direct_free_kick(announced, attacker, defender, fk_event.zone)
        Indirect ==
            resolve_attack(
                [log_event(announced, "cross", "normal", "INDIRECT_FK_ATTACK")
                     EXCEPT !.possession = attacker, !.zone = attacker],
                attacker, defender, z.def_mod)
        Restart == {ToMidfield(log_event(announced, "restart", "minor", "FK_RESTART"),
                               attacker)}
    IN  (IF z.p_direct > 0 THEN Direct ELSE {})
        \cup (IF z.p_indirect > 0 THEN Indirect ELSE {})
        \cup (IF z.p_direct + z.p_indirect < 100 THEN Restart ELSE {})

\* the record of the fields a step writes, before the step
Now == [minute |-> minute, zone |-> zone, possession |-> possession,
        score_a |-> team_a.score, score_b |-> team_b.score, log |-> <<>>]

LogKinds == {"abandoned", "Kickoff", "Halftime", "Full Time", "FREE_KICK", "GOALS",
             "SHOOTOUT_START", "SHOOTOUT_KICK", "SHOOTOUT_END", "MORALE_UPDATE",
             "committed", "DB_ERROR"}

GoalTypes == {"GOAL", "GOAL_FK", "GOAL_PENALTY"}

\* the kind an entry is counted under: its event type (the three goal types
\* together), or its text when it has no event type
Kind(e) ==
    IF e.event_type \in GoalTypes THEN "GOALS"
    ELSE IF e.event_type # None THEN e.event_type
    ELSE e.text

CountKind(entries, k) == Cardinality({i \in DOMAIN entries : Kind(entries[i]) = k})

\* faulty variant of Logged: logging_enabled is not read
LoggedAlways(entries) ==
    /\ log_new' = entries
    /\ log_len' = Min(LogLenCap, log_len + Len(entries))
    /\ log_count' = [k \in LogKinds |->
                        Min(LogCountCap, log_count[k] + CountKind(entries, k))]

\* self.log.append for every entry of entries, if logging is enabled
Logged(entries) ==
    LET appended == IF logging_enabled THEN entries ELSE <<>>
    IN  /\ log_new' = appended
        /\ log_len' = Min(LogLenCap, log_len + Len(appended))
        /\ log_count' = [k \in LogKinds |->
                            Min(LogCountCap, log_count[k] + CountKind(appended, k))]

\* the step's result st written back to the simulator
Written(st) ==
    /\ minute' = st.minute
    /\ zone' = st.zone
    /\ possession' = st.possession
    /\ team_a' = [team_a EXCEPT !.score = st.score_a]
    /\ team_b' = [team_b EXCEPT !.score = st.score_b]
    /\ Logged(st.log)

\* _generate_free_kicks: MIN_FREE_KICKS or more events, sorted by minute
Schedule(minutes) ==
    [i \in DOMAIN minutes |->
        [minute |-> minutes[i],
         team |-> IF i % 2 = 1 THEN "A" ELSE "B",
         zone |-> FKZoneNames[(((i - 1) \div 2) % 4) + 1]]]

FKSchedule1 == Schedule(<<11, 22, 33, 44, 44, 55, 66, 77, 88, 90>>)
FKSchedule2 == Schedule(<<1, 1, 2, 43, 44, 45, 46, 60, 89, 90, 90>>)

\* the events left in the order they were created
left_unsorted(events) == events

\* line 197: events.sort(key=lambda e: e['minute']), a stable sort
sort_by_minute(events) ==
    SortedBy(events, [i \in DOMAIN events |-> 0 - events[i].minute])

\* lines 191-196: the events of a schedule in an order the loop can append
\* them in, the sixth and later ones before the first five
AsAppended(events) == SubSeq(events, 6, Len(events)) \o SubSeq(events, 1, 5)

\* _generate_free_kicks, lines 191-198, on the events its draws give
_generate_free_kicks(events) == sort_by_minute(AsAppended(events))

\* the simulators constructed: team models, fixed lineup ids, flags, free kicks
Sc(a, fixed_a, b, fixed_b, logging, knockout, fks) ==
    [a |-> a, fixed_a |-> fixed_a, b |-> b, fixed_b |-> fixed_b,
     logging |-> logging, knockout |-> knockout, fks |-> fks]

Scenarios ==
    { Sc("Lions", NoIds, "Tigers", NoIds, TRUE, TRUE, FKSchedule1),
      Sc("Lions", NoIds, "Tigers", NoIds, TRUE, FALSE, FKSchedule2),
      Sc("Lions", PlayerIds("Lions"), "Tigers", NoIds, FALSE, FALSE, FKSchedule1),
      Sc("Rovers", NoIds, "Wolves", NoIds, FALSE, TRUE, FKSchedule2),
      Sc("Gloves", NoIds, "Tigers", NoIds, FALSE, TRUE, FKSchedule1),
      Sc("Aces", NoIds, "Tigers", NoIds, FALSE, FALSE, FKSchedule1),
      Sc("Gloves", NoIds, "Lions", NoIds, TRUE, FALSE, FKSchedule1),
      Sc("Lions", NoIds, "Rovers", NoIds, TRUE, FALSE, FKSchedule2) }
    \cup { Sc("Colts", NoIds, "Lions", NoIds, logging, knockout, FKSchedule1) :
               logging \in BOOLEAN, knockout \in BOOLEAN }
    \cup { Sc("Lions", NoIds, "Tigers", {201, 202, 210}, logging, knockout, FKSchedule2) :
               logging \in BOOLEAN, knockout \in BOOLEAN }

DEFAULT_MORALE == 80

\* the locals of resolve_shootout; kicker is the taker handed to the last call
\* of resolve_penalty_kick
NoShootout == [i |-> 0, round_num |-> 0, goal_a |-> FALSE, kicker |-> <<>>,
               takers_a |-> <<>>, takers_b |-> <<>>, rem_a |-> <<>>, rem_b |-> <<>>]

\* MatchSimulator.__init__
MatchSimulatorInit(fx) ==
    /\ morale = [id \in PlayerIds(fx.a) \cup PlayerIds(fx.b) |-> DEFAULT_MORALE]
    /\ team_a = MatchTeam(fx.a, TRUE, fx.fixed_a, morale)
    /\ team_b = MatchTeam(fx.b, FALSE, fx.fixed_b, morale)
    /\ logging_enabled = fx.logging
    /\ is_knockout = fx.knockout
    /\ call = NoCall
    /\ minute = 0
    /\ zone = "M"
    /\ possession \in {"A", "B"}
    /\ free_kick_events = _generate_free_kicks(fx.fks)
    /\ shootout_score_a = 0
    /\ shootout_score_b = 0
    /\ winner_on_penalties = None
    /\ so = NoShootout
    /\ log_len = 0
    /\ log_new = <<>>
    /\ log_count = [k \in LogKinds |-> 0]

NoMorale == [stage |-> "none"]

Init ==
    /\ pc = "start"
    /\ mo = NoMorale
    /\ \E fx \in Scenarios : MatchSimulatorInit(fx)

Unplayable ==
    \/ Len(get_starting_11(team_a.lineup)) < SQUAD_SIZE
    \/ Len(get_starting_11(team_b.lineup)) < SQUAD_SIZE

\* simulate(), lines 205-207: the match is abandoned
Abandon ==
    /\ pc = "start"
    /\ Unplayable
    /\ Written(log_event(Now, "abandoned", "error", None))
    /\ pc' = "done"
    /\ UNCHANGED <<morale, logging_enabled, is_knockout, call, free_kick_events,
                   shootout_score_a, shootout_score_b, winner_on_penalties, so, mo>>

\* simulate(), lines 209-210
Kickoff ==
    /\ pc = "start"
    /\ ~Unplayable
    /\ Written(log_event(Now, "Kickoff", "info", None))
    /\ pc' = "loop"
    /\ UNCHANGED <<morale, logging_enabled, is_knockout, call, free_kick_events,
                   shootout_score_a, shootout_score_b, winner_on_penalties, so, mo>>

FreeKickDue ==
    /\ free_kick_events # <<>>
    /\ free_kick_events[1].minute <= minute

WithinGoals(st) == st.score_a <= MaxGoals /\ st.score_b <= MaxGoals

\* the minute a dequeued free kick is played at
FreeKickMinute(fk_event) == fk_event.minute

\* one round of the while loop of _process_scheduled_free_kicks
ProcessScheduledFreeKick ==
    /\ pc = "loop"
    /\ minute < MATCH_MINUTES
    /\ FreeKickDue
    /\ LET fk_event == Head(free_kick_events)
           at == [Now EXCEPT !.minute = FreeKickMinute(fk_event)]
       IN  \E st \in resolve_free_kick(at, fk_event) :
               /\ WithinGoals(st)
               /\ Written(st)
    /\ free_kick_events' = Tail(free_kick_events)
    /\ UNCHANGED <<pc, morale, logging_enabled, is_knockout, call, shootout_score_a,
                   shootout_score_b, winner_on_penalties, so, mo>>

\* does the tick from last_minute to new_minute log Halftime?
CrossesHalftime(last_minute, new_minute) ==
    last_minute < HALFTIME_MINUTE /\ new_minute >= HALFTIME_MINUTE

\* faulty variant of Advance: the increment is not added
AdvanceNowhere(mn, time_increment) == mn

\* faulty variant of Advance: the clock is not capped
AdvanceUncapped(mn, time_increment) == mn + time_increment

\* the clock after a tick of time_increment
Advance(mn, time_increment) == Min(MATCH_MINUTES, mn + time_increment)

\* simulate(), lines 214-220: one tick of the clock and one open-play step
Tick ==
    /\ pc = "loop"
    /\ minute < MATCH_MINUTES
    /\ ~FreeKickDue
    /\ \E time_increment \in 1..MAX_TIME_INCREMENT :
           LET last_minute == minute
               ticked == [Now EXCEPT !.minute = Advance(minute, time_increment)]
               marked == IF CrossesHalftime(last_minute, ticked.minute)
                         THEN log_event(ticked, "Halftime", "info", None)
                         ELSE ticked
           IN  \E st \in process_event(marked) :
                   /\ WithinGoals(st)
                   /\ Written(st)
    /\ UNCHANGED <<pc, morale, logging_enabled, is_knockout, call, free_kick_events,
                   shootout_score_a, shootout_score_b, winner_on_penalties, so, mo>>

\* faulty variant of ShootoutDue: is_knockout is not read
ShootoutDueOnAnyTie == team_a.score = team_b.score

\* is a shootout due at full time?
ShootoutDue == is_knockout /\ team_a.score = team_b.score

\* simulate(), lines 222-229: the loop has ended
FullTime ==
    /\ pc = "loop"
    /\ minute >= MATCH_MINUTES
    /\ Written(log_score(Now, "Full Time", "final", None, team_a.score, team_b.score))
    /\ pc' = IF ShootoutDue THEN "shootout" ELSE "done"
    /\ UNCHANGED <<morale, logging_enabled, is_knockout, call, free_kick_events,
                   shootout_score_a, shootout_score_b, winner_on_penalties, so, mo>>

(***************************************************************************)
(* resolve_shootout.                                                       *)
(***************************************************************************)
\* team_a_players / team_b_players: the starters who are not goalkeepers
OutfieldPlayers(side) ==
    SelectSeq(get_starting_11(Team(side).lineup),
              LAMBDA id : Player(id).position # "GOALKEEPER")

\* faulty variant of ShootoutTakers: the first five in lineup order, unsorted
ShootoutTakersInLineupOrder(side) == Take(OutfieldPlayers(side), SHOOTOUT_ROUNDS)

\* team_a_takers / team_b_takers
ShootoutTakers(side) ==
    LET players == OutfieldPlayers(side)
    IN  Take(SortedBy(players,
                      [i \in DOMAIN players |-> Player(players[i]).penalty_taking]),
             SHOOTOUT_ROUNDS)

\* rem_a / rem_b
SuddenDeathTakers(side, takers) ==
    LET rem == SelectSeq(OutfieldPlayers(side), LAMBDA id : id \notin Range(takers))
    IN  IF rem # <<>> THEN rem ELSE takers

\* the break test of line 377 made after side A's kick
DecidedAfterAAsAfterB(a, b, i) == a > b + (4 - i) \/ b > a + (4 - i)

\* the break test after side A's kick of round i (0-based)
DecidedAfterA(a, b, i) == a > b + (5 - i) \/ b > a + (4 - i)

\* the break test after side B's kick of round i
DecidedAfterB(a, b, i) == a > b + (4 - i) \/ b > a + (4 - i)

\* faulty variant of SuddenDeathGoesOn: sudden death is played to a lead of two
SuddenDeathGoesOnToTwo(a, b) == a - b < 2 /\ b - a < 2

\* the test of the sudden-death while loop
SuddenDeathGoesOn(a, b) == a = b

\* a tally after a sudden-death round: level tallies are counted up to
\* MaxShootoutGoals and kept there while both sides go on scoring
TallyAfter(tally, goal, other_goal) ==
    IF goal /\ other_goal /\ tally >= MaxShootoutGoals THEN tally
    ELSE tally + (IF goal THEN 1 ELSE 0)

RECURSIVE Gcd(_, _)
Gcd(a, b) == IF b = 0 THEN a ELSE Gcd(b, a % b)

\* round_num is read only modulo len(rem_a) and len(rem_b): it is kept modulo
\* their least common multiple
RoundCycle(rem_a, rem_b) == (Len(rem_a) * Len(rem_b)) \div Gcd(Len(rem_a), Len(rem_b))

\* faulty variant of ShootoutWinner: the tallies are not read
ShootoutWinnerHome(a, b) == team_a.team

\* the winner named at the end of resolve_shootout
ShootoutWinner(a, b) == IF a > b THEN team_a.team ELSE team_b.team

StaysInMatch == UNCHANGED <<morale, logging_enabled, is_knockout, call, free_kick_events, mo>>

\* resolve_shootout, lines 365-369
ShootoutStart ==
    /\ pc = "shootout"
    /\ Written(log_event(Now, "shootout", "final", "SHOOTOUT_START"))
    /\ so' = [NoShootout EXCEPT !.takers_a = ShootoutTakers("A"),
                                 !.takers_b = ShootoutTakers("B")]
    /\ pc' = "so_kick_a"
    /\ UNCHANGED <<shootout_score_a, shootout_score_b, winner_on_penalties>>
    /\ StaysInMatch

\* lines 372-374: team A's kick of round so.i; takers[i] out of range raises
ShootoutKickA ==
    /\ pc = "so_kick_a"
    /\ LET round == log_event(Now, "shootout round", "info", None)
       IN  IF so.i + 1 > Len(so.takers_a)
           THEN /\ Written(round)
                /\ pc' = "raised"
                /\ UNCHANGED <<shootout_score_a, so>>
           ELSE \E r \in resolve_penalty_kick(round, "A", "B",
                                              <<so.takers_a[so.i + 1]>>, TRUE) :
                    /\ Written(r.st)
                    /\ shootout_score_a' = shootout_score_a + (IF r.is_goal THEN 1 ELSE 0)
                    /\ so' = [so EXCEPT !.kicker = <<so.takers_a[so.i + 1]>>]
                    /\ pc' = IF DecidedAfterA(shootout_score_a', shootout_score_b, so.i)
                             THEN "so_after" ELSE "so_kick_b"
    /\ UNCHANGED <<shootout_score_b, winner_on_penalties>>
    /\ StaysInMatch

\* lines 375-377: team B's kick of round so.i
ShootoutKickB ==
    /\ pc = "so_kick_b"
    /\ IF so.i + 1 > Len(so.takers_b)
       THEN /\ Written(Now)
            /\ pc' = "raised"
            /\ UNCHANGED <<shootout_score_b, so>>
       ELSE \E r \in resolve_penalty_kick(Now, "B", "A",
                                          <<so.takers_b[so.i + 1]>>, TRUE) :
                /\ Written(log_event(r.st, "shootout score", "info", None))
                /\ shootout_score_b' = shootout_score_b + (IF r.is_goal THEN 1 ELSE 0)
                /\ IF DecidedAfterB(shootout_score_a, shootout_score_b', so.i)
                      \/ so.i + 1 = SHOOTOUT_ROUNDS
                   THEN /\ pc' = "so_after"
                        /\ so' = [so EXCEPT !.kicker = <<so.takers_b[so.i + 1]>>]
                   ELSE /\ pc' = "so_kick_a"
                        /\ so' = [so EXCEPT !.i = @ + 1,
                                            !.kicker = <<so.takers_b[so.i + 1]>>]
    /\ UNCHANGED <<shootout_score_a, winner_on_penalties>>
    /\ StaysInMatch

\* lines 379-383: level after the best-of-five phase
SuddenDeathStart ==
    /\ pc = "so_after"
    /\ shootout_score_a = shootout_score_b
    /\ Written(log_event(Now, "sudden death", "info", None))
    /\ so' = [so EXCEPT !.round_num = 0,
                         !.rem_a = SuddenDeathTakers("A", so.takers_a),
                         !.rem_b = SuddenDeathTakers("B", so.takers_b)]
    /\ pc' = "sd_kick_a"
    /\ UNCHANGED <<shootout_score_a, shootout_score_b, winner_on_penalties>>
    /\ StaysInMatch

\* lines 385-386: team A's sudden-death kick
SuddenDeathKickA ==
    /\ pc = "sd_kick_a"
    /\ LET round == log_event(Now, "sudden death round", "info", None)
       IN  \E r \in resolve_penalty_kick(
                        round, "A", "B",
                        <<so.rem_a[(so.round_num % Len(so.rem_a)) + 1]>>, TRUE) :
               /\ Written(r.st)
               /\ so' = [so EXCEPT !.goal_a = r.is_goal,
                                   !.kicker =
                                       <<so.rem_a[(so.round_num % Len(so.rem_a)) + 1]>>]
    /\ pc' = "sd_kick_b"
    /\ UNCHANGED <<shootout_score_a, shootout_score_b, winner_on_penalties>>
    /\ StaysInMatch

\* lines 387-391: team B's sudden-death kick and the end of the round
SuddenDeathKickB ==
    /\ pc = "sd_kick_b"
    /\ \E r \in resolve_penalty_kick(
                    Now, "B", "A",
                    <<so.rem_b[(so.round_num % Len(so.rem_b)) + 1]>>, TRUE) :
               /\ Written(log_event(r.st, "shootout score", "info", None))
               /\ shootout_score_a' = TallyAfter(shootout_score_a, so.goal_a, r.is_goal)
               /\ shootout_score_b' = TallyAfter(shootout_score_b, r.is_goal, so.goal_a)
               /\ so' = [so EXCEPT !.round_num = (@ + 1) % RoundCycle(so.rem_a, so.rem_b),
                                   !.goal_a = FALSE,
                                   !.kicker =
                                       <<so.rem_b[(so.round_num % Len(so.rem_b)) + 1]>>]
               /\ pc' = IF SuddenDeathGoesOn(shootout_score_a', shootout_score_b')
                        THEN "sd_kick_a" ELSE "so_end"
    /\ UNCHANGED winner_on_penalties
    /\ StaysInMatch

\* the best-of-five phase ended with a leader
ShootoutDecided ==
    /\ pc = "so_after"
    /\ shootout_score_a # shootout_score_b
    /\ pc' = "so_end"
    /\ UNCHANGED <<team_a, team_b, minute, zone, possession, shootout_score_a,
                   shootout_score_b, winner_on_penalties, so, log_len, log_new,
                   log_count>>
    /\ StaysInMatch

\* lines 393-394
ShootoutEnd ==
    /\ pc = "so_end"
    /\ winner_on_penalties' = ShootoutWinner(shootout_score_a, shootout_score_b)
    /\ Written(log_event(Now, "wins the shootout", "final", "SHOOTOUT_END"))
    /\ so' = NoShootout
    /\ pc' = "done"
    /\ UNCHANGED <<shootout_score_a, shootout_score_b>>
    /\ StaysInMatch

Next ==
    \/ Abandon
    \/ Kickoff
    \/ ProcessScheduledFreeKick
    \/ Tick
    \/ FullTime
    \/ ShootoutStart
    \/ ShootoutKickA
    \/ ShootoutKickB
    \/ SuddenDeathStart
    \/ SuddenDeathKickA
    \/ SuddenDeathKickB
    \/ ShootoutDecided
    \/ ShootoutEnd

Spec == Init /\ [][Next]_vars

(***************************************************************************)
(* The regulation part of simulate(): the code runs on without suspension, *)
(* so a step that can be taken is taken.                                   *)
(***************************************************************************)
RegulationScenarios ==
    { Sc("Lions", NoIds, "Tigers", NoIds, logging, FALSE, FKSchedule2) :
          logging \in BOOLEAN }
    \cup { Sc("Colts", NoIds, "Lions", NoIds, TRUE, FALSE, FKSchedule1) }

RegulationInit ==
    /\ pc = "start"
    /\ mo = NoMorale
    /\ \E fx \in RegulationScenarios : MatchSimulatorInit(fx)

RegulationNext ==
    \/ Abandon
    \/ Kickoff
    \/ ProcessScheduledFreeKick
    \/ Tick
    \/ FullTime

RegulationSpec == RegulationInit /\ [][RegulationNext]_vars /\ WF_vars(RegulationNext)

(***************************************************************************)
(* resolve_shootout on its own, from full time of a level knockout match,  *)
(* with the kicks resolved fairly.                                         *)
(***************************************************************************)
\* level knockout matches at full time: the fixture and the goals of each side
ShootoutScenarios ==
    { <<Sc("Lions", NoIds, "Tigers", NoIds, logging, TRUE, FKSchedule1), g>> :
          logging \in BOOLEAN, g \in 0..MaxGoals }
    \cup { <<Sc("Rovers", NoIds, "Wolves", NoIds, TRUE, TRUE, FKSchedule2), 0>>,
           <<Sc("Gloves", NoIds, "Tigers", NoIds, FALSE, TRUE, FKSchedule1), 0>>,
           <<Sc("Tigers", NoIds, "Gloves", NoIds, FALSE, TRUE, FKSchedule1), 0>>,
           <<Sc("Aces", NoIds, "Tigers", NoIds, TRUE, TRUE, FKSchedule2), 0>>,
           <<Sc("Tigers", NoIds, "Aces", NoIds, FALSE, TRUE, FKSchedule2), 0>>,
           <<Sc("Aces", NoIds, "Stars", NoIds, FALSE, TRUE, FKSchedule1), 0>> }

\* the simulator of fx when the loop of simulate() has ended g-g and Full Time
\* is logged: the clock at 90, the free kicks of minute 90 still queued
LevelAtFullTime(fx, g) ==
    LET left == SelectSeq(fx.fks, LAMBDA e : e.minute >= MATCH_MINUTES)
    IN  /\ morale = [id \in PlayerIds(fx.a) \cup PlayerIds(fx.b) |-> DEFAULT_MORALE]
        /\ team_a = [MatchTeam(fx.a, TRUE, fx.fixed_a, morale) EXCEPT !.score = g]
        /\ team_b = [MatchTeam(fx.b, FALSE, fx.fixed_b, morale) EXCEPT !.score = g]
        /\ logging_enabled = fx.logging
        /\ is_knockout = fx.knockout
        /\ call = NoCall
        /\ minute = MATCH_MINUTES
        /\ zone = "M"
        /\ possession \in {"A", "B"}
        /\ free_kick_events = left
        /\ shootout_score_a = 0
        /\ shootout_score_b = 0
        /\ winner_on_penalties = None
        /\ so = NoShootout
        /\ log_len = IF fx.logging THEN LogLenCap ELSE 0
        /\ log_new = IF fx.logging
                     THEN <<Entry(MATCH_MINUTES, "final", None, "Full Time", <<g, g>>)>>
                     ELSE <<>>
        /\ log_count =
               [k \in LogKinds |->
                   IF ~fx.logging THEN 0
                   ELSE CASE k \in {"Kickoff", "Halftime", "Full Time"} -> 1
                          [] k = "FREE_KICK" -> Min(LogCountCap, Len(fx.fks) - Len(left))
                          [] k = "GOALS" -> Min(LogCountCap, 2 * g)
                          [] OTHER -> 0]

ShootoutInit ==
    /\ pc = "shootout"
    /\ mo = NoMorale
    /\ \E sc \in ShootoutScenarios : LevelAtFullTime(sc[1], sc[2])

ShootoutNext ==
    \/ ShootoutStart
    \/ ShootoutKickA
    \/ ShootoutKickB
    \/ SuddenDeathStart
    \/ SuddenDeathKickA
    \/ SuddenDeathKickB
    \/ ShootoutDecided
    \/ ShootoutEnd

\* the outcomes of a sudden-death round: random.random() draws afresh for every
\* kick, so an outcome that stays possible is not avoided for ever
KickAScores == SuddenDeathKickA /\ so'.goal_a
KickAFails == SuddenDeathKickA /\ ~so'.goal_a
RoundDecides == SuddenDeathKickB /\ shootout_score_a' # shootout_score_b'

ShootoutFairness ==
    /\ WF_vars(ShootoutNext)
    /\ SF_vars(KickAScores)
    /\ SF_vars(KickAFails)
    /\ SF_vars(RoundDecides)

ShootoutSpec == ShootoutInit /\ [][ShootoutNext]_vars /\ ShootoutFairness

(***************************************************************************)
(* The morale update of "match_simulator - Copy.py": the constants of      *)
(* lines 60-69, _get_morale_params, apply_post_match_morale_updates and    *)
(* _process_team_morale.  Multipliers are in hundredths (margin, drift     *)
(* rate) and tenths (personality); a morale change is computed in          *)
(* thousandths and rounded as int(round(...)) rounds it.                   *)
(***************************************************************************)
MaxMoraleGoals == 3    \* goals of a side in a match whose morale update is followed
MaxSims == 1           \* the simulations argument of get_prematch_odds

MORALE_BASE_WIN == 8
MORALE_BASE_LOSS == -10
MORALE_BASE_DRAW == 1
MORALE_MARGIN_THRESHOLD == 3
MORALE_MARGIN_MULTIPLIER == 150    \* 1.5
MORALE_GOAL_BONUS == 3
MORALE_HAT_TRICK_BONUS == 10
MORALE_DRIFT_TARGET == 75
MORALE_DRIFT_RATE == 5             \* 0.05
MORALE_EFFECT_ACTIVE == 0
HAT_TRICK_GOALS == 3
MORALE_MIN == 0
MORALE_MAX == 100

MoraleKeys == {"MORALE_BASE_WIN", "MORALE_BASE_LOSS", "MORALE_BASE_DRAW",
               "MORALE_MARGIN_THRESHOLD", "MORALE_MARGIN_MULTIPLIER",
               "MORALE_GOAL_BONUS", "MORALE_HAT_TRICK_BONUS",
               "MORALE_DRIFT_TARGET", "MORALE_DRIFT_RATE"}

\* the params dict of _get_morale_params before the overrides
DefaultMoraleParams ==
    [k \in MoraleKeys |->
        CASE k = "MORALE_BASE_WIN" -> MORALE_BASE_WIN
          [] k = "MORALE_BASE_LOSS" -> MORALE_BASE_LOSS
          [] k = "MORALE_BASE_DRAW" -> MORALE_BASE_DRAW
          [] k = "MORALE_MARGIN_THRESHOLD" -> MORALE_MARGIN_THRESHOLD
          [] k = "MORALE_MARGIN_MULTIPLIER" -> MORALE_MARGIN_MULTIPLIER
          [] k = "MORALE_GOAL_BONUS" -> MORALE_GOAL_BONUS
          [] k = "MORALE_HAT_TRICK_BONUS" -> MORALE_HAT_TRICK_BONUS
          [] k = "MORALE_DRIFT_TARGET" -> MORALE_DRIFT_TARGET
          [] k = "MORALE_DRIFT_RATE" -> MORALE_DRIFT_RATE]

\* _get_morale_params: overrides is a set of <<key, value>> pairs, empty for
\* None; params.update(overrides) replaces the values of the keys it has
_get_morale_params(overrides) ==
    [k \in MoraleKeys |->
        IF \E o \in overrides : o[1] = k
        THEN (CHOOSE o \in overrides : o[1] = k)[2]
        ELSE DefaultMoraleParams[k]]

\* the morale_params arguments followed: none, one constant, all of them at
\* values far from the defaults
MoraleOverrides ==
    { {},
      { <<"MORALE_DRIFT_RATE", 100>> },
      { <<"MORALE_BASE_WIN", 400>>, <<"MORALE_BASE_LOSS", -400>>,
        <<"MORALE_BASE_DRAW", 50>>, <<"MORALE_MARGIN_THRESHOLD", 1>>,
        <<"MORALE_MARGIN_MULTIPLIER", 300>>, <<"MORALE_GOAL_BONUS", 60>>,
        <<"MORALE_HAT_TRICK_BONUS", 250>>, <<"MORALE_DRIFT_TARGET", 500>>,
        <<"MORALE_DRIFT_RATE", 300>> } }

\* Player.get_personality_multiplier, in tenths
get_personality_multiplier(p, is_positive_event) ==
    CASE p.personality = "Professional" -> 10
      [] p.personality = "Ambitious" -> IF is_positive_event THEN 15 ELSE 8
      [] p.personality = "Stoic" -> 6
      [] p.personality = "Volatile" -> 18
      [] OTHER -> 10

\* int(round(x / unit)): to the nearest integer, a tie to the even one
RoundHalfEven(x, unit) ==
    LET q == x \div unit
        r == x % unit
    IN  IF 2 * r < unit THEN q
        ELSE IF 2 * r > unit THEN q + 1
        ELSE IF q % 2 = 0 THEN q ELSE q + 1

\* MatchTeam.avg_morale, kept as the sum and the number of the starters
avg_morale(lineup, mor) ==
    LET ids == get_starting_11(lineup)
        Sum[i \in 0..Len(ids)] == IF i = 0 THEN 0 ELSE Sum[i - 1] + mor[ids[i]]
    IN  [sum |-> Sum[Len(ids)], n |-> Len(ids)]

\* match_team.avg_morale < target
AvgMoraleBelow(avg, target) ==
    IF avg.n = 0 THEN 0 < target ELSE avg.sum < target * avg.n

\* _process_team_morale, lines 579-593: base change, sign and margin multiplier
MoraleOutcome(result, margin, avg, params) ==
    LET base_change == CASE result = "WIN" -> params["MORALE_BASE_WIN"]
                         [] result = "LOSS" -> params["MORALE_BASE_LOSS"]
                         [] OTHER -> params["MORALE_BASE_DRAW"]
        is_positive == CASE result = "WIN" -> TRUE
                         [] result = "LOSS" -> FALSE
                         [] OTHER -> AvgMoraleBelow(avg, params["MORALE_DRIFT_TARGET"])
        is_significant ==
            CASE result = "WIN" -> margin >= params["MORALE_MARGIN_THRESHOLD"]
              [] result = "LOSS" -> Abs(margin) >= params["MORALE_MARGIN_THRESHOLD"]
              [] OTHER -> FALSE
    IN  [base_change |-> base_change, is_positive |-> is_positive,
         margin_multiplier |-> IF is_significant
                               THEN params["MORALE_MARGIN_MULTIPLIER"] ELSE 100]

\* faulty variant of outcome_change: the starting eleven is not read
outcome_change_for_all(p, is_starter, outcome) ==
    outcome.base_change * outcome.margin_multiplier
        * get_personality_multiplier(p, outcome.is_positive)

\* lines 596-599, in thousandths
outcome_change(p, is_starter, outcome) ==
    IF is_starter
    THEN outcome.base_change * outcome.margin_multiplier
             * get_personality_multiplier(p, outcome.is_positive)
    ELSE 0

\* lines 601-606
performance_change(goals_scored, params) ==
    IF goals_scored >= HAT_TRICK_GOALS THEN params["MORALE_HAT_TRICK_BONUS"]
    ELSE IF goals_scored > 0 THEN goals_scored * params["MORALE_GOAL_BONUS"]
    ELSE 0

\* lines 608-611, in hundredths
drift_change(player_morale, is_starter, params) ==
    IF ~is_starter
    THEN (params["MORALE_DRIFT_TARGET"] - player_morale) * params["MORALE_DRIFT_RATE"]
    ELSE 0

\* line 613
total_change(p, player_morale, is_starter, goals_scored, outcome, params) ==
    RoundHalfEven(outcome_change(p, is_starter, outcome)
                      + 1000 * performance_change(goals_scored, params)
                      + 10 * drift_change(player_morale, is_starter, params),
                  1000)

\* faulty variant of new_morale: the sum is not clamped
new_morale_unclamped(player_morale, change) == player_morale + change

\* line 614
new_morale(player_morale, change) ==
    Max(MORALE_MIN, Min(MORALE_MAX, player_morale + change))

\* the total_change of every player of match_team.team.players
TeamMoraleChanges(match_team, avg, result, margin, goals, mor, params) ==
    LET starting_11_ids == Range(get_starting_11(match_team.lineup))
        outcome == MoraleOutcome(result, margin, avg, params)
    IN  [id \in PlayerIds(match_team.team) |->
            total_change(Player(id), mor[id], id \in starting_11_ids, goals[id],
                         outcome, params)]

\* the MORALE_UPDATE entries of _process_team_morale, in roster order
MoraleEntries(match_team, changes) ==
    LET players == TeamPlayers(match_team.team)
        changed == SelectSeq(players, LAMBDA p : Abs(changes[p.id]) > 0)
    IN  [i \in DOMAIN changed |->
            Entry(minute, "minor", "MORALE_UPDATE", "morale change",
                  <<changed[i].id, changes[changed[i].id]>>)]

\* apply_post_match_morale_updates, lines 549-563: result and margin of a side
MatchResult(side) ==
    LET score_a == team_a.score
        score_b == team_b.score
        result_a == IF winner_on_penalties # None
                    THEN IF winner_on_penalties = team_a.team THEN "WIN" ELSE "LOSS"
                    ELSE IF score_a > score_b THEN "WIN"
                    ELSE IF score_b > score_a THEN "LOSS"
                    ELSE "DRAW"
        result_b == CASE result_a = "WIN" -> "LOSS"
                      [] result_a = "LOSS" -> "WIN"
                      [] OTHER -> "DRAW"
        margin_a == IF winner_on_penalties # None THEN 0 ELSE score_a - score_b
    IN  IF side = "A"
        THEN [result |-> result_a, margin |-> margin_a]
        ELSE [result |-> result_b, margin |-> 0 - margin_a]

\* the morale values the update is followed from, some of them outside 0..100
MoraleInputs == <<-20, 0, 40, 74, 75, 100, 130>>
MoraleShifts == 4

\* the morale column of the players ids, the values of MoraleInputs dealt out
\* from place shift on
InputMorale(ids, shift) ==
    [id \in ids |-> MoraleInputs[((id + shift) % Len(MoraleInputs)) + 1]]

\* the players of match_team followed as scorers: record_goal credits the
\* free-kick taker (line 400), the shooter (line 469) or the penalty taker
\* (line 511)
ScorersFollowed(match_team) ==
    Range(match_team.best_fk_taker) \cup Range(match_team.best_penalty_taker)

\* player_stats of match_team at full time: the goals of the side credited
\* to one scorer, or one goal each to as many scorers
GoalCredits(match_team) ==
    LET ids == PlayerIds(match_team.team)
        scorers == ScorersFollowed(match_team)
        ToOne(c) == [id \in ids |-> IF id = c THEN match_team.score ELSE 0]
        OneEach == [id \in ids |-> IF id \in scorers THEN 1 ELSE 0]
    IN  IF match_team.score = 0 \/ scorers = {}
        THEN {[id \in ids |-> 0]}
        ELSE {ToOne(c) : c \in scorers}
                 \cup (IF Cardinality(scorers) = match_team.score
                       THEN {OneEach} ELSE {})

NoOdds == [user |-> None, enemy |-> None, fixed |-> NoIds, simulations |-> 0,
           orientation |-> "none", run |-> 0, wins |-> 0, draws |-> 0,
           losses |-> 0, goals_for |-> 0, goals_against |-> 0, home |-> <<>>]

\* the simulator's morale state when simulate(commit_changes) is at line 318
MoraleState(effect_active, commit_changes, overrides, mor, odds) ==
    [stage |-> "simulate",
     effect_active |-> effect_active,
     commit_changes |-> commit_changes,
     morale_params |-> _get_morale_params(overrides),
     avg_morale |-> [A |-> avg_morale(team_a.lineup, mor),
                     B |-> avg_morale(team_b.lineup, mor)],
     goals |-> [id \in DOMAIN mor |-> 0],
     result |-> [A |-> [result |-> "DRAW", margin |-> 0],
                 B |-> [result |-> "DRAW", margin |-> 0]],
     changes |-> [id \in {} |-> 0],
     db |-> mor,
     commit |-> "none",
     odds |-> odds]

StaysInMorale ==
    UNCHANGED <<pc, team_a, team_b, logging_enabled, is_knockout, call, minute, zone,
                possession, free_kick_events, shootout_score_a, shootout_score_b,
                winner_on_penalties, so>>

\* simulate(), line 318, with the morale subsystem off
MoraleOff ==
    /\ pc = "done"
    /\ mo.stage = "simulate"
    /\ ~Unplayable
    /\ mo.effect_active # 1
    /\ mo' = [mo EXCEPT !.stage = "returned"]
    /\ Logged(<<>>)
    /\ UNCHANGED morale
    /\ StaysInMorale

\* simulate(), lines 318-319, and apply_post_match_morale_updates, lines 549-563
MoraleDue ==
    /\ pc = "done"
    /\ mo.stage = "simulate"
    /\ ~Unplayable
    /\ mo.effect_active = 1
    /\ \E goals_a \in GoalCredits(team_a), goals_b \in GoalCredits(team_b) :
           mo' = [mo EXCEPT !.stage = "team_a",
                            !.goals = goals_a @@ goals_b,
                            !.result = [A |-> MatchResult("A"), B |-> MatchResult("B")]]
    /\ Logged(<<>>)
    /\ UNCHANGED morale
    /\ StaysInMorale

\* _process_team_morale(match_team, result, margin) for the team of side
ProcessTeam(side, next_stage) ==
    LET match_team == Team(side)
        changes == TeamMoraleChanges(match_team, mo.avg_morale[side],
                                     mo.result[side].result, mo.result[side].margin,
                                     mo.goals, morale, mo.morale_params)
    IN  /\ morale' = [id \in DOMAIN morale |->
                         IF id \in DOMAIN changes
                         THEN new_morale(morale[id], changes[id])
                         ELSE morale[id]]
        /\ Logged(MoraleEntries(match_team, changes))
        /\ mo' = [mo EXCEPT !.stage = next_stage, !.changes = changes]
        /\ StaysInMorale

\* line 565
ProcessTeamA == mo.stage = "team_a" /\ ProcessTeam("A", "team_b")

\* line 566
ProcessTeamB == mo.stage = "team_b" /\ ProcessTeam("B", "commit")

\* faulty variant of DbErrorEntry: the entry is tagged like the success message
DbErrorEntryAsSystem(mn) == Entry(mn, "system", None, "Error committing", <<>>)

\* line 574: the entry logged when the commit raised
DbErrorEntry(mn) == Entry(mn, "error", "DB_ERROR", "Error committing", <<>>)

\* lines 568-571: db.session.commit() succeeds
MoraleCommit ==
    /\ mo.stage = "commit"
    /\ mo.commit_changes
    /\ mo' = [mo EXCEPT !.stage = "returned", !.db = morale, !.commit = "committed"]
    /\ Logged(<<Entry(minute, "system", None, "committed", <<>>)>>)
    /\ UNCHANGED morale
    /\ StaysInMorale

\* lines 568-574: db.session.commit() raises; the rollback expires the Player
\* objects, which read the stored values again
MoraleCommitFails ==
    /\ mo.stage = "commit"
    /\ mo.commit_changes
    /\ mo' = [mo EXCEPT !.stage = "returned", !.commit = "failed"]
    /\ morale' = mo.db
    /\ Logged(<<DbErrorEntry(minute)>>)
    /\ StaysInMorale

\* line 568: commit_changes is False
MoraleNoCommit ==
    /\ mo.stage = "commit"
    /\ ~mo.commit_changes
    /\ mo' = [mo EXCEPT !.stage = "returned"]
    /\ Logged(<<>>)
    /\ UNCHANGED morale
    /\ StaysInMorale

\* the matches whose morale update is followed: the sides, the flags, the
\* score at full time and the shootout tallies
MoraleScenarios ==
    { [fx |-> Sc("Lions", NoIds, "Tigers", NoIds, logging, knockout, <<>>),
       score_a |-> a, score_b |-> b, shootout |-> s] :
          logging \in BOOLEAN, knockout \in BOOLEAN,
          a \in 0..MaxMoraleGoals, b \in 0..MaxMoraleGoals,
          s \in {<<0, 0>>, <<5, 4>>, <<3, 5>>} }

\* simulate() at line 318 for the match m, the players' morale being mor
PlayedMatch(m, mor) ==
    LET fx == m.fx
        shot == m.shootout # <<0, 0>>
    IN  /\ shot <=> (fx.knockout /\ m.score_a = m.score_b)
        /\ morale = mor
        /\ team_a = [MatchTeam(fx.a, TRUE, fx.fixed_a, mor) EXCEPT !.score = m.score_a]
        /\ team_b = [MatchTeam(fx.b, FALSE, fx.fixed_b, mor) EXCEPT !.score = m.score_b]
        /\ logging_enabled = fx.logging
        /\ is_knockout = fx.knockout
        /\ call = NoCall
        /\ minute = MATCH_MINUTES
        /\ zone = "M"
        /\ possession = "A"
        /\ free_kick_events = <<>>
        /\ shootout_score_a = m.shootout[1]
        /\ shootout_score_b = m.shootout[2]
        /\ winner_on_penalties =
               IF shot THEN ShootoutWinner(m.shootout[1], m.shootout[2]) ELSE None
        /\ so = NoShootout
        /\ log_len = IF fx.logging THEN LogLenCap ELSE 0
        /\ log_new = IF ~fx.logging THEN <<>>
                     ELSE IF shot
                     THEN <<Entry(MATCH_MINUTES, "final", "SHOOTOUT_END",
                                  "wins the shootout", <<>>)>>
                     ELSE <<Entry(MATCH_MINUTES, "final", None, "Full Time",
                                  <<m.score_a, m.score_b>>)>>
        /\ log_count =
               [k \in LogKinds |->
                   IF ~fx.logging THEN 0
                   ELSE CASE k \in {"Kickoff", "Halftime", "Full Time"} -> 1
                          [] k = "FREE_KICK" -> LogCountCap
                          [] k = "GOALS" -> Min(LogCountCap, m.score_a + m.score_b)
                          [] k \in {"SHOOTOUT_START", "SHOOTOUT_END"} ->
                                 IF shot THEN 1 ELSE 0
                          [] k = "SHOOTOUT_KICK" -> IF shot THEN LogCountCap ELSE 0
                          [] OTHER -> 0]

MoraleInit ==
    /\ pc = "done"
    /\ \E m \in MoraleScenarios, shift \in 0..(MoraleShifts - 1) :
           PlayedMatch(m, InputMorale(PlayerIds(m.fx.a) \cup PlayerIds(m.fx.b), shift))
    /\ \E commit_changes \in BOOLEAN, overrides \in MoraleOverrides :
           mo = MoraleState(1, commit_changes, overrides, morale, NoOdds)

MoraleNext ==
    \/ MoraleDue
    \/ ProcessTeamA
    \/ ProcessTeamB
    \/ MoraleCommit
    \/ MoraleCommitFails
    \/ MoraleNoCommit

MoraleSpec == MoraleInit /\ [][MoraleNext]_vars

(***************************************************************************)
(* get_prematch_odds of "match_simulator - Copy.py": simulations headless  *)
(* matches with the user's team at home, then as many with it away.        *)
(***************************************************************************)
\* the calls followed: the two team models and fixed_user_lineup_ids
OddsCalls ==
    { [user |-> "Lions", enemy |-> "Tigers", fixed |-> NoIds],
      [user |-> "Tigers", enemy |-> "Lions", fixed |-> {201, 202, 210}] }

\* lines 652-655: the four MatchTeam objects built for the statistics (the
\* user's team at home and the enemy away are kept in team_a and team_b)
OddsInit ==
    /\ pc = "odds"
    /\ \E odds_call \in OddsCalls :
           /\ morale = [id \in PlayerIds(odds_call.user) \cup PlayerIds(odds_call.enemy) |->
                           DEFAULT_MORALE]
           /\ team_a = MatchTeam(odds_call.user, TRUE, odds_call.fixed, morale)
           /\ team_b = MatchTeam(odds_call.enemy, FALSE, NoIds, morale)
           /\ \E effect_active \in {MORALE_EFFECT_ACTIVE, 1},
                 simulations \in 1..MaxSims :
                  mo = [MoraleState(effect_active, FALSE, {}, morale,
                                    [NoOdds EXCEPT !.user = odds_call.user,
                                                   !.enemy = odds_call.enemy,
                                                   !.fixed = odds_call.fixed,
                                                   !.simulations = simulations,
                                                   !.orientation = "home"])
                            EXCEPT !.stage = "idle"]
    /\ logging_enabled = FALSE
    /\ is_knockout = FALSE
    /\ call = NoCall
    /\ minute = 0
    /\ zone = "M"
    /\ possession = "A"
    /\ free_kick_events = <<>>
    /\ shootout_score_a = 0
    /\ shootout_score_b = 0
    /\ winner_on_penalties = None
    /\ so = NoShootout
    /\ log_len = 0
    /\ log_new = <<>>
    /\ log_count = [k \in LogKinds |-> 0]

\* MatchSimulator.__init__ of the simulator a run constructs
MatchSimulatorNew(fx) ==
    /\ team_a' = MatchTeam(fx.a, TRUE, fx.fixed_a, morale)
    /\ team_b' = MatchTeam(fx.b, FALSE, fx.fixed_b, morale)
    /\ logging_enabled' = fx.logging
    /\ is_knockout' = fx.knockout
    /\ call' = call
    /\ minute' = 0
    /\ zone' = "M"
    /\ possession' \in {"A", "B"}
    /\ free_kick_events' = _generate_free_kicks(fx.fks)
    /\ shootout_score_a' = 0
    /\ shootout_score_b' = 0
    /\ winner_on_penalties' = None
    /\ so' = NoShootout
    /\ log_len' = 0
    /\ log_new' = <<>>
    /\ log_count' = [k \in LogKinds |-> 0]

\* the fixture of a run: home_team_model, away_team_model and the fixed ids
OddsFixture(odds) ==
    IF odds.orientation = "home"
    THEN Sc(odds.user, odds.fixed, odds.enemy, NoIds, FALSE, FALSE, FKSchedule1)
    ELSE Sc(odds.enemy, NoIds, odds.user, odds.fixed, FALSE, FALSE, FKSchedule2)

\* _run_fixture_sims, lines 660-669: a simulator is constructed and
\* simulate(commit_changes=False) is entered
OddsRun ==
    /\ pc = "odds"
    /\ mo.odds.orientation \in {"home", "away"}
    /\ mo.odds.run < mo.odds.simulations
    /\ MatchSimulatorNew(OddsFixture(mo.odds))
    /\ mo' = [mo EXCEPT !.stage = "simulate",
                        !.commit_changes = FALSE,
                        !.avg_morale = [A |-> avg_morale(team_a'.lineup, morale),
                                        B |-> avg_morale(team_b'.lineup, morale)],
                        !.goals = [id \in DOMAIN morale |-> 0],
                        !.commit = "none"]
    /\ pc' = "start"
    /\ UNCHANGED morale

\* has simulate() returned?
SimulateReturned ==
    /\ pc = "done"
    /\ \/ mo.stage = "returned"
       \/ mo.stage = "simulate" /\ Unplayable

\* a result counted with every drawn match taken for a win
CountResultDrawAsWin(odds, score_a, score_b) ==
    [odds EXCEPT !.run = @ + 1,
                 !.goals_for = @ + score_a,
                 !.goals_against = @ + score_b,
                 !.wins = IF score_a >= score_b THEN @ + 1 ELSE @,
                 !.losses = IF score_b > score_a THEN @ + 1 ELSE @]

\* _run_fixture_sims, lines 671-675 (lines 433-436 of match_simulator.py):
\* the goals of the result are added up and the result is counted
CountResult(odds, score_a, score_b) ==
    [odds EXCEPT !.run = @ + 1,
                 !.goals_for = @ + score_a,
                 !.goals_against = @ + score_b,
                 !.wins = IF score_a > score_b THEN @ + 1 ELSE @,
                 !.losses = IF score_b > score_a THEN @ + 1 ELSE @,
                 !.draws = IF score_a = score_b THEN @ + 1 ELSE @]

\* line 676 (line 437): the counters a fixture's probabilities and average
\* goals are computed from, each divided by simulations
FixtureTally(odds) ==
    [run |-> odds.run, wins |-> odds.wins, draws |-> odds.draws,
     losses |-> odds.losses, goals_for |-> odds.goals_for,
     goals_against |-> odds.goals_against]

\* _run_fixture_sims, lines 662-676: the result of a run is counted; after
\* the last run of the home fixture the away fixture follows (lines 677-678)
OddsCount ==
    /\ SimulateReturned
    /\ LET odds == mo.odds
           counted == CountResult(odds, team_a.score, team_b.score)
           after == IF counted.run < odds.simulations THEN counted
                    ELSE IF odds.orientation = "home"
                    THEN [counted EXCEPT !.orientation = "away",
                                         !.home = <<FixtureTally(counted)>>,
                                         !.run = 0, !.wins = 0, !.draws = 0,
                                         !.losses = 0, !.goals_for = 0,
                                         !.goals_against = 0]
                    ELSE [counted EXCEPT !.orientation = "over"]
       IN  mo' = [mo EXCEPT !.stage = "idle", !.odds = after]
    /\ pc' = "odds"
    /\ UNCHANGED <<morale, team_a, team_b, logging_enabled, is_knockout, call, minute,
                   zone, possession, free_kick_events, shootout_score_a,
                   shootout_score_b, winner_on_penalties, so, log_len, log_new,
                   log_count>>

\* lines 680-684: the odds are returned
OddsReturn ==
    /\ pc = "odds"
    /\ mo.odds.orientation = "over"
    /\ pc' = "odds_returned"
    /\ UNCHANGED <<morale, team_a, team_b, logging_enabled, is_knockout, call, minute,
                   zone, possession, free_kick_events, shootout_score_a,
                   shootout_score_b, winner_on_penalties, so, log_len, log_new,
                   log_count, mo>>

OddsNext ==
    \/ OddsRun
    \/ Abandon
    \/ Kickoff
    \/ ProcessScheduledFreeKick
    \/ Tick
    \/ FullTime
    \/ MoraleOff
    \/ MoraleDue
    \/ ProcessTeamA
    \/ ProcessTeamB
    \/ MoraleNoCommit
    \/ OddsCount
    \/ OddsReturn

OddsSpec == OddsInit /\ [][OddsNext]_vars

(***************************************************************************)
(* Functions called on their own.  No simulator exists; call holds the     *)
(* arguments and the result.                                               *)
(***************************************************************************)
NoSimulator ==
    /\ team_a = None
    /\ team_b = None
    /\ morale = <<>>
    /\ logging_enabled = FALSE
    /\ is_knockout = FALSE
    /\ minute = 0
    /\ zone = "M"
    /\ possession = "A"
    /\ free_kick_events = <<>>
    /\ shootout_score_a = 0
    /\ shootout_score_b = 0
    /\ winner_on_penalties = None
    /\ so = NoShootout
    /\ log_len = 0
    /\ log_new = <<>>
    /\ log_count = [k \in LogKinds |-> 0]
    /\ mo = NoMorale

OnlyCall ==
    UNCHANGED <<team_a, team_b, morale, logging_enabled, is_knockout, minute, zone,
                possession, free_kick_events, shootout_score_a, shootout_score_b,
                winner_on_penalties, so, log_len, log_new, log_count, mo>>

(***************************************************************************)
(* MatchTeam.select_lineup on rosters drawn from a pool of thirteen.       *)
(***************************************************************************)
\* the players rosters are drawn from, in roster order: not ordered by skill,
\* with equal effective_skill among the defenders (903 and 905) and more
\* goalkeepers and defenders than the formation takes
LineupPool ==
    << Pl(901, GK, 50, 100, 30, 60, 40, "Professional"),
       Pl(902, GK, 60, 100, 30, 70, 40, "Professional"),
       Pl(903, DF, 60, 100, 50, 20, 50, "Professional"),
       Pl(904, DF, 70, 100, 50, 20, 50, "Professional"),
       Pl(905, DF, 60, 100, 50, 20, 50, "Professional"),
       Pl(906, DF, 80, 50, 50, 20, 50, "Professional"),
       Pl(907, DF, 65, 100, 50, 20, 50, "Professional"),
       Pl(908, MF, 55, 100, 60, 20, 50, "Professional"),
       Pl(909, MF, 75, 80, 60, 20, 50, "Professional"),
       Pl(911, MF, 66, 100, 60, 20, 50, "Professional"),
       Pl(912, MF, 90, 20, 60, 20, 50, "Professional"),
       Pl(913, FW, 70, 100, 70, 20, 60, "Professional"),
       Pl(914, FW, 85, 100, 70, 20, 60, "Professional") >>

PoolIds == Range(Ids(LineupPool))

\* team.players of a team that has the pool's players with ids in kept
RosterOf(kept) == SelectSeq(LineupPool, LAMBDA p : p.id \in kept)

\* the ids fixed lineups are made of: four of them may be on the roster, 999 is
\* the id of no player of the pool
FixedIdPool == {901, 903, 904, 908, 913, 999}

\* the players a roster may lack when a fixed lineup is supplied
FixedRosterGaps == {903, 908, 913, 914}

\* the morale of a roster's players (player.py, line 59)
RosterMorale(players) == [id \in Range(Ids(players)) |-> DEFAULT_MORALE]

\* MatchTeam.__init__, lines 87-91, up to the call of select_lineup
LineupCall(players, fixed_lineup_ids) ==
    [fn |-> "select_lineup", players |-> players,
     fixed_lineup_ids |-> fixed_lineup_ids, calls |-> 0,
     lineup |-> EmptyLineup, earlier |-> EmptyLineup]

LineupInit ==
    /\ pc = "call"
    /\ NoSimulator
    /\ \/ \E kept \in SUBSET PoolIds : call = LineupCall(RosterOf(kept), NoIds)
       \/ \E gaps \in SUBSET FixedRosterGaps, fixed \in SUBSET FixedIdPool :
              call = LineupCall(RosterOf(PoolIds \ gaps), fixed)

\* self.select_lineup(), line 98: self.lineup is built anew
SelectLineup ==
    /\ pc = "call"
    /\ call.calls = 0
    /\ call' = [call EXCEPT
                   !.calls = 1,
                   !.lineup = select_lineup(call.players, call.fixed_lineup_ids,
                                            RosterMorale(call.players))]
    /\ pc' = "called"
    /\ OnlyCall

\* select_lineup() called again on the same MatchTeam
SelectLineupAgain ==
    /\ pc = "called"
    /\ call.calls = 1
    /\ call' = [call EXCEPT
                   !.calls = 2,
                   !.earlier = call.lineup,
                   !.lineup = select_lineup(call.players, call.fixed_lineup_ids,
                                            RosterMorale(call.players))]
    /\ pc' = "called"
    /\ OnlyCall

LineupNext ==
    \/ SelectLineup
    \/ SelectLineupAgain

LineupSpec == LineupInit /\ [][LineupNext]_vars

(***************************************************************************)
(* logistic_probability on strengths and scales drawn from small sets.     *)
(***************************************************************************)
\* strengths in 1/100000: zonal strengths of the simulator (0 to 104) and
\* strengths 10, 200 and 320 apart and just beyond, where the exponent
\* reaches 10 for the scales 1, 20 and 32
LogisticStrengths ==
    {0, 1000000, 1000001, 2000000, 7500000, 10400000, 20000000, 20000001,
     32000000, 32000001}

\* scaling factors: 1, PENALTY_SCALING and MIDFIELD_SCALING
LogisticScales == {1, PENALTY_SCALING, MIDFIELD_SCALING}

LogisticCall(strength_a, strength_b, scaling_factor) ==
    [fn |-> "logistic_probability", strength_a |-> strength_a,
     strength_b |-> strength_b, scaling_factor |-> scaling_factor, calls |-> 0,
     returned |-> "none", exp |-> <<>>, caught |-> FALSE]

LogisticInit ==
    /\ pc = "call"
    /\ NoSimulator
    /\ \E strength_a \in LogisticStrengths, strength_b \in LogisticStrengths,
          scaling_factor \in LogisticScales :
           call = LogisticCall(strength_a, strength_b, scaling_factor)

\* logistic_probability, lines 63-71: math.exp is called or not; an
\* OverflowError of math.exp is caught and 1.0 or 0.0 returned by the sign of
\* diff, otherwise the value computed is returned
CallLogistic ==
    /\ pc = "call"
    /\ call.fn = "logistic_probability"
    /\ LET exps == exp_calls(call.strength_a, call.strength_b, call.scaling_factor)
           caught == exps # <<>> /\ exp_overflows(exps[1])
       IN  call' = [call EXCEPT
                       !.calls = 1,
                       !.exp = exps,
                       !.caught = caught,
                       !.returned =
                           IF caught
                           THEN (IF call.strength_a - call.strength_b > 0
                                 THEN "one" ELSE "zero")
                           ELSE logistic_probability(call.strength_a, call.strength_b,
                                                     call.scaling_factor)]
    /\ pc' = "called"
    /\ OnlyCall

LogisticNext == CallLogistic

LogisticSpec == LogisticInit /\ [][LogisticNext]_vars

(***************************************************************************)
(* goal_probability on the ratings, noise draws, scales and conversion     *)
(* factors of the simulator's calls.                                       *)
(***************************************************************************)
\* effective ratings in thousandths: 0, 30, 60, 100 and 115 (a rating of 100
\* with a trait)
GoalRatings == {0, 30000, 60000, 100000, 115000}

\* the ends and the middle of random.uniform's ranges, in hundredths
ShooterNoiseDraws == SHOOTER_NOISE \cup {100}
KeeperNoiseDraws == GK_NOISE \cup {100}

\* the calls of goal_probability: resolve_shot (line 317, and line 452 of
\* "match_simulator - Copy.py" with a distance), resolve_penalty_kick (line
\* 339) and resolve_direct_free_kick (lines 265-267)
GoalCallers ==
    {[scaling |-> GK_SHOT_SCALING, base |-> GOAL_CONVERSION_FACTOR * 10, distance |-> <<>>],
     [scaling |-> PENALTY_SCALING, base |-> PENALTY_CONVERSION_FACTOR * 10,
      distance |-> <<>>]}
    \cup {[scaling |-> GK_SHOT_SCALING, base |-> GOAL_CONVERSION_FACTOR * 10,
           distance |-> <<d>>] : d \in SHOT_DISTANCE_MIN..SHOT_DISTANCE_MAX}
    \cup {[scaling |-> FK_SHOT_SCALING,
           base |-> FK_GOAL_CONVERSION_FACTOR_BASE * DistFactor(z),
           distance |-> <<>>] : z \in Range(FKZoneNames)}

GoalCall(shooter_eff, keeper_eff, s_noise, k_noise, caller) ==
    [fn |-> "goal_probability", shooter_eff |-> shooter_eff,
     keeper_eff |-> keeper_eff, s_noise |-> s_noise, k_noise |-> k_noise,
     scaling |-> caller.scaling, base_conversion_factor |-> caller.base,
     distance |-> caller.distance, calls |-> 0, returned |-> "none"]

GoalInit ==
    /\ pc = "call"
    /\ NoSimulator
    /\ \E shooter_eff \in GoalRatings, keeper_eff \in GoalRatings,
          s_noise \in ShooterNoiseDraws, k_noise \in KeeperNoiseDraws,
          caller \in GoalCallers :
           call = GoalCall(shooter_eff, keeper_eff, s_noise, k_noise, caller)

\* goal_probability, lines 73-84 (lines 81-103 of "match_simulator - Copy.py")
CallGoalProbability ==
    /\ pc = "call"
    /\ call.fn = "goal_probability"
    /\ call' = [call EXCEPT
                   !.calls = 1,
                   !.returned =
                       goal_probability(call.shooter_eff, call.keeper_eff,
                                        call.s_noise, call.k_noise, call.scaling,
                                        final_conversion_factor(
                                            call.base_conversion_factor,
                                            call.distance))]
    /\ pc' = "called"
    /\ OnlyCall

GoalNext == CallGoalProbability

GoalSpec == GoalInit /\ [][GoalNext]_vars

(***************************************************************************)
(* Player.effective_skill on skills, shapes and morale drawn from small    *)
(* sets.  The workbench assigns player.shape = int(p['shape']) from the    *)
(* request (routes.py, line 378), so a shape above 100 can be stored.      *)
(***************************************************************************)
MaxShape == 110        \* the greatest shape followed

SkillValues == {0, 1, 50, 65, 99, 100}

ShapeValues == 0..MaxShape

MoraleValues == {0, 50, DEFAULT_MORALE, 100}

SkillCall(skill, shape, m) ==
    [fn |-> "effective_skill",
     player |-> Pl(1, MF, skill, shape, 50, 50, 50, "Professional"),
     morale |-> m, calls |-> 0, returned |-> 0]

SkillInit ==
    /\ pc = "call"
    /\ NoSimulator
    /\ \E skill \in SkillValues, shape \in ShapeValues, m \in MoraleValues :
           call = SkillCall(skill, shape, m)

\* Player.effective_skill, lines 72-95
CallEffectiveSkill ==
    /\ pc = "call"
    /\ call.fn = "effective_skill"
    /\ call' = [call EXCEPT !.calls = 1,
                            !.returned = effective_skill(call.player, call.morale)]
    /\ pc' = "called"
    /\ OnlyCall

SkillNext == CallEffectiveSkill

SkillSpec == SkillInit /\ [][SkillNext]_vars

(***************************************************************************)
(* MatchSimulator._generate_free_kicks under the two configurations.       *)
(***************************************************************************)
\* AVG_FREE_KICKS_PER_GAME and FREE_KICK_VARIANCE of match_simulator.py (lines
\* 40-41) and of "match_simulator - Copy.py" (lines 41-42)
FreeKickConfigs == {[avg |-> 10, variance |-> 5], [avg |-> 0, variance |-> 0]}

\* int(random.gauss(avg, variance)): with variance 0 the draw is avg, otherwise
\* the draws followed lie around it
GaussDraws(avg, variance) ==
    IF variance = 0 THEN {avg}
    ELSE {avg - 2 * variance, avg - 1, avg, avg + 1, avg + 2}

\* the minutes random.randint(1, 90) gives to the events in the order they are
\* created; team and zone of the i-th event as in Schedule
FreeKickDraws ==
    { <<44, 11, 90, 22, 44, 88, 33, 77, 55, 66, 1, 45>>,
      <<90, 90, 1, 1, 2, 43, 44, 45, 46, 60, 89, 3>>,
      <<1, 2, 3, 4, 5, 6, 7, 8, 9, 10, 11, 12>> }

\* line 188: num_kicks
num_kicks(gauss) == Max(MIN_FREE_KICKS, gauss)

FreeKickCall(config, gauss, draws) ==
    [fn |-> "_generate_free_kicks", avg |-> config.avg,
     variance |-> config.variance, gauss |-> gauss, draws |-> Schedule(draws),
     stage |-> "start", num_kicks |-> 0, events |-> <<>>]

FreeKickGenInit ==
    /\ pc = "call"
    /\ NoSimulator
    /\ \E config \in FreeKickConfigs, draws \in FreeKickDraws :
           \E gauss \in GaussDraws(config.avg, config.variance) :
               call = FreeKickCall(config, gauss, draws)

\* line 188
DrawNumKicks ==
    /\ pc = "call"
    /\ call.fn = "_generate_free_kicks"
    /\ call.stage = "start"
    /\ call' = [call EXCEPT !.stage = "loop", !.num_kicks = num_kicks(call.gauss)]
    /\ UNCHANGED pc
    /\ OnlyCall

\* lines 191-196: one pass of the loop
AppendFreeKick ==
    /\ pc = "call"
    /\ call.fn = "_generate_free_kicks"
    /\ call.stage = "loop"
    /\ Len(call.events) < call.num_kicks
    /\ call' = [call EXCEPT !.events = Append(@, call.draws[Len(@) + 1])]
    /\ UNCHANGED pc
    /\ OnlyCall

\* lines 197-198: the events are sorted and returned
ReturnFreeKicks ==
    /\ pc = "call"
    /\ call.fn = "_generate_free_kicks"
    /\ call.stage = "loop"
    /\ Len(call.events) = call.num_kicks
    /\ call' = [call EXCEPT !.stage = "returned",
                            !.events = sort_by_minute(call.events)]
    /\ pc' = "called"
    /\ OnlyCall

FreeKickGenNext ==
    \/ DrawNumKicks
    \/ AppendFreeKick
    \/ ReturnFreeKicks

FreeKickGenSpec == FreeKickGenInit /\ [][FreeKickGenNext]_vars

(***************************************************************************)
(* The main loop of simulate() of "match_simulator - Copy.py", run on two  *)
(* simulators that receive the same random draws: call.runs holds the      *)
(* fields of both, taken up after the last scheduled free kick.            *)
(***************************************************************************)
MaxLoopTurns == 3

\* MatchTeam.__init__, lines 120-126
NoStats ==
    [possession_time |-> 0, shots |-> 0, passes_won |-> 0, tackles_won |-> 0,
     territorial_advantage_time |-> 0]

\* zonal strengths in 1/100000, shooter and keeper ratings in thousandths
DominanceTeams ==
    [A |-> [MIDFIELDER |-> 6240000, FORWARD |-> 6500000, DEFENDER |-> 5800000,
            GOALKEEPER |-> 6000000, shooter |-> 65000, taker |-> 70000,
            keeper |-> 60000],
     B |-> [MIDFIELDER |-> 6000000, FORWARD |-> 5500000, DEFENDER |-> 6100000,
            GOALKEEPER |-> 6600000, shooter |-> 55000, taker |-> 60000,
            keeper |-> 66000]]

\* match_stats of both teams and dominance_score (thousandths) a run starts with
TelemetryStarts ==
    { [match_stats |-> [A |-> NoStats, B |-> NoStats], dominance_score |-> 0],
      [match_stats |-> [A |-> [NoStats EXCEPT !.possession_time = 30, !.shots = 4],
                        B |-> [NoStats EXCEPT !.possession_time = 10,
                                              !.tackles_won = 2]],
       dominance_score |-> 0 - 400],
      [match_stats |-> [A |-> NoStats,
                        B |-> [NoStats EXCEPT !.possession_time = 40,
                                              !.territorial_advantage_time = 25,
                                              !.passes_won = 9]],
       dominance_score |-> 1000] }

\* minute, zone, possession and scores the loop is taken up at
LoopStarts ==
    { [minute |-> mn, zone |-> zp[1], possession |-> zp[2], score_a |-> 0,
       score_b |-> sb] :
          mn \in {1, 44, 86},
          zp \in {<<"M", "A">>, <<"M", "B">>, <<"A", "A">>, <<"B", "B">>},
          sb \in {0, 1} }

\* the random draws of one pass of the loop: a roll is "low" (below every
\* probability strictly between 0 and 1) or "high" (above every such one)
LoopDraws ==
    [time_increment : {1, MAX_TIME_INCREMENT}, gate_roll : {"low", "high"},
     penalty : BOOLEAN, goal_roll : {"low", "high"}, s_noise : {100},
     k_noise : {100}, distance : {OPTIMAL_SHOT_DISTANCE}]

\* roll < prob
Hit(roll, prob) == prob = "one" \/ (prob = "mid" /\ roll = "low")

\* record_stat, lines 142-144
record_stat(run, side, stat_name, amount) ==
    IF stat_name \in DOMAIN run.match_stats[side]
    THEN [run EXCEPT !.match_stats[side][stat_name] = @ + amount]
    ELSE run

\* calculate_dominance, lines 323-354: the weights in tenths, the scores and
\* dominance_score in thousandths, quotients rounded down
calculate_dominance(run) ==
    LET a == run.match_stats["A"]
        b == run.match_stats["B"]
        total_time == a.possession_time + b.possession_time
        score_possession ==
            ((b.possession_time - a.possession_time) * 1000) \div total_time
        score_territory ==
            ((b.territorial_advantage_time - a.territorial_advantage_time) * 1000)
                \div total_time
        actions_a == a.passes_won + a.tackles_won + a.shots * 3
        actions_b == b.passes_won + b.tackles_won + b.shots * 3
        total_actions == actions_a + actions_b
        score_actions == IF total_actions > 0
                         THEN ((actions_b - actions_a) * 1000) \div total_actions
                         ELSE 0
        calculated_score ==
            (score_possession * 3 + score_territory * 3 + score_actions * 4) \div 10
        moved == run.dominance_score + (calculated_score - run.dominance_score) \div 10
    IN  IF total_time = 0 THEN run
        ELSE [run EXCEPT !.dominance_score = Max(0 - 1000, Min(1000, moved))]

\* the midfield contest tilted by the telemetry
midfield_probability_by_dominance(run, teams) ==
    IF run.dominance_score > 0 THEN "zero"
    ELSE logistic_probability(teams[run.possession].MIDFIELDER,
                              teams[Other(run.possession)].MIDFIELDER, MIDFIELD_SCALING)

\* resolve_midfield_battle, lines 414-416
midfield_probability(run, teams) ==
    logistic_probability(teams[run.possession].MIDFIELDER,
                         teams[Other(run.possession)].MIDFIELDER, MIDFIELD_SCALING)

\* resolve_midfield_battle, lines 413-424
resolve_midfield_battle_copy(run, teams, draws) ==
    LET attacker == run.possession
        defender == Other(run.possession)
    IN  IF Hit(draws.gate_roll, midfield_probability(run, teams))
        THEN [record_stat(run, attacker, "passes_won", 1) EXCEPT !.zone = attacker]
        ELSE [record_stat(run, defender, "tackles_won", 1) EXCEPT
                  !.possession = defender]

AddScore(run, side) ==
    IF side = "A" THEN [run EXCEPT !.score_a = @ + 1]
    ELSE [run EXCEPT !.score_b = @ + 1]

\* resolve_shot, lines 443-482: both lineups of DominanceTeams have a shooter
\* and a goalkeeper
resolve_shot_copy(run, teams, attacker, defender, draws) ==
    LET counted == record_stat(run, attacker, "shots", 1)
        prob == goal_probability(
                    teams[attacker].shooter, teams[defender].keeper, draws.s_noise,
                    draws.k_noise, GK_SHOT_SCALING,
                    final_conversion_factor(GOAL_CONVERSION_FACTOR * 10,
                                            <<draws.distance>>))
        shot == IF Hit(draws.goal_roll, prob) THEN AddScore(counted, attacker)
                ELSE counted
    IN  [shot EXCEPT !.possession = defender, !.zone = "M"]

\* resolve_penalty_kick, lines 484-512, in open play
resolve_penalty_kick_copy(run, teams, attacker, defender, draws) ==
    LET counted == record_stat(run, attacker, "shots", 1)
        prob == goal_probability(
                    teams[attacker].taker, teams[defender].keeper, draws.s_noise,
                    draws.k_noise, PENALTY_SCALING, PENALTY_CONVERSION_FACTOR * 10)
        kicked == IF Hit(draws.goal_roll, prob) THEN AddScore(counted, attacker)
                  ELSE counted
    IN  [kicked EXCEPT !.possession = defender, !.zone = "M"]

\* resolve_attack, lines 426-441, with the default defense_modifier
resolve_attack_copy(run, teams, attacker, defender, draws) ==
    LET att_str == teams[attacker].FORWARD
        pure_def == teams[defender].DEFENDER
        gk_str == teams[defender].GOALKEEPER
        def_gate == ((100 - DEF_GK_BLEND) * pure_def + DEF_GK_BLEND * gk_str) \div 100
        prob == logistic_probability(att_str, def_gate, ATTACK_SCALING)
    IN  IF Hit(draws.gate_roll, prob)
        THEN resolve_shot_copy(run, teams, attacker, defender, draws)
        ELSE IF draws.penalty
             THEN resolve_penalty_kick_copy(run, teams, attacker, defender, draws)
             ELSE [record_stat(run, defender, "tackles_won", 1) EXCEPT
                       !.possession = defender, !.zone = "M"]

\* process_event, lines 361-365
process_event_copy(run, teams, draws) ==
    IF run.zone = "M" THEN resolve_midfield_battle_copy(run, teams, draws)
    ELSE IF run.zone = "A" THEN resolve_attack_copy(run, teams, "A", "B", draws)
    ELSE resolve_attack_copy(run, teams, "B", "A", draws)

\* simulate, lines 295-308: one pass of the loop with an empty free-kick queue
loop_pass(run, teams, draws) ==
    LET timed == record_stat(run, run.possession, "possession_time",
                             draws.time_increment)
        held == IF run.zone = run.possession
                THEN record_stat(timed, run.possession, "territorial_advantage_time",
                                 draws.time_increment)
                ELSE timed
        ticked == [held EXCEPT !.minute = Min(MATCH_MINUTES, @ + draws.time_increment)]
    IN  process_event_copy(calculate_dominance(ticked), teams, draws)

\* get_results, lines 625-637, without the log
get_results_copy(run) == [score_a |-> run.score_a, score_b |-> run.score_b]

DominanceCall(start, first, second) ==
    [fn |-> "simulate", teams |-> DominanceTeams, turns |-> 0, stage |-> "loop",
     runs |-> <<start @@ first, start @@ second>>, results |-> <<>>]

DominanceInit ==
    /\ pc = "call"
    /\ NoSimulator
    /\ \E start \in LoopStarts, first \in TelemetryStarts, second \in TelemetryStarts :
           call = DominanceCall(start, first, second)

\* line 292 and lines 293-308: both simulators make one pass on the same draws
LoopPass ==
    /\ pc = "call"
    /\ call.fn = "simulate"
    /\ call.stage = "loop"
    /\ call.turns < MaxLoopTurns
    /\ \E i \in 1..2 : call.runs[i].minute < MATCH_MINUTES
    /\ \E draws \in LoopDraws :
           call' = [call EXCEPT
                        !.turns = @ + 1,
                        !.runs = [i \in 1..2 |->
                                      IF call.runs[i].minute < MATCH_MINUTES
                                      THEN loop_pass(call.runs[i], call.teams, draws)
                                      ELSE call.runs[i]]]
    /\ UNCHANGED pc
    /\ OnlyCall

\* lines 292 and 321: the loops have ended and both simulators return
LoopEnds ==
    /\ pc = "call"
    /\ call.fn = "simulate"
    /\ call.stage = "loop"
    /\ \A i \in 1..2 : call.runs[i].minute >= MATCH_MINUTES
    /\ call' = [call EXCEPT !.stage = "returned",
                            !.results = [i \in 1..2 |-> get_results_copy(call.runs[i])]]
    /\ pc' = "called"
    /\ OnlyCall

DominanceNext ==
    \/ LoopPass
    \/ LoopEnds

DominanceSpec == DominanceInit /\ [][DominanceNext]_vars

(***************************************************************************)
(* Player.effective_fk_ability, effective_penalty_taking and               *)
(* effective_penalty_saving called on players of every position.           *)
(***************************************************************************)
AttributeValues == {0, 1, 64, 65, 66, 100}

SpecialistShapes == {0, 50, 99, 100}

SpecialistRatings ==
    {"effective_fk_ability", "effective_penalty_taking", "effective_penalty_saving"}

\* the player a rating is read of: the three attributes at the same value
SpecialistCall(fn, pos, attribute, shape) ==
    [fn |-> fn,
     player |-> Pl(1, pos, 50, shape, attribute, attribute, attribute, "Professional"),
     attribute |-> attribute, calls |-> 0, returned |-> 0]

SpecialistInit ==
    /\ pc = "call"
    /\ NoSimulator
    /\ \E fn \in SpecialistRatings, pos \in Range(Position),
          attribute \in AttributeValues, shape \in SpecialistShapes :
           call = SpecialistCall(fn, pos, attribute, shape)

\* the value of the property fn of player p, in thousandths
SpecialistRating(fn, p) ==
    CASE fn = "effective_fk_ability" -> effective_fk_ability(p)
      [] fn = "effective_penalty_taking" -> effective_penalty_taking(p)
      [] OTHER -> effective_penalty_saving(p)

\* player.py, lines 124-155: one of the three properties is read
CallSpecialistRating ==
    /\ pc = "call"
    /\ call.fn \in SpecialistRatings
    /\ call' = [call EXCEPT !.calls = 1,
                            !.returned = SpecialistRating(call.fn, call.player)]
    /\ pc' = "called"
    /\ OnlyCall

SpecialistNext == CallSpecialistRating

SpecialistSpec == SpecialistInit /\ [][SpecialistNext]_vars

(***************************************************************************)
(* The properties.                                                         *)
(***************************************************************************)
ShootoutPcs == {"shootout", "so_kick_a", "so_kick_b", "so_after", "sd_kick_a",
                "sd_kick_b", "so_end"}

ShootoutKinds == {"SHOOTOUT_START", "SHOOTOUT_KICK", "SHOOTOUT_END"}

\* C1: when simulate() returns for a knockout match that was played and ended
\* level, winner_on_penalties is set, the shootout tallies differ and the
\* winner named is the side with the higher tally.
C1_ShootoutNamesTheLeader ==
    (pc = "done" /\ is_knockout /\ ~Unplayable /\ team_a.score = team_b.score)
        => /\ winner_on_penalties # None
           /\ shootout_score_a # shootout_score_b
           /\ shootout_score_a > shootout_score_b => winner_on_penalties = team_a.team
           /\ shootout_score_b > shootout_score_a => winner_on_penalties = team_b.team
           /\ team_a.team # team_b.team

\* a shootout that went to sudden death and was won by the away side
C1_Witness ==
    /\ pc = "done"
    /\ is_knockout
    /\ team_a.score = team_b.score
    /\ shootout_score_b > shootout_score_a
    /\ shootout_score_a >= SHOOTOUT_ROUNDS
    /\ winner_on_penalties = team_b.team

\* C2: resolve_shootout always terminates: whatever the two lineups and the
\* goal probabilities of the kicks, with the kicks resolved fairly a shootout
\* that has begun comes to its end (a round after which the tallies differ),
\* unless it raises for want of takers.
C2_ShootoutTerminates ==
    (pc = "shootout") ~> (pc = "done" \/ pc = "raised")

\* C3: a shootout happens only for knockout fixtures tied after 90 minutes:
\* when simulate() returns for a match that is not knockout, or not level, or
\* was abandoned, winner_on_penalties is None, the tallies are 0-0 and the
\* log holds no SHOOTOUT_START, SHOOTOUT_KICK or SHOOTOUT_END entry.
C3_ShootoutOnlyForKnockoutTies ==
    (pc = "done" /\ (~is_knockout \/ team_a.score # team_b.score \/ Unplayable))
        => /\ winner_on_penalties = None
           /\ shootout_score_a = 0
           /\ shootout_score_b = 0
           /\ \A k \in ShootoutKinds : log_count[k] = 0

\* a logged league match that ended level
C3_Witness ==
    /\ pc = "done"
    /\ ~is_knockout
    /\ logging_enabled
    /\ ~Unplayable
    /\ team_a.score = team_b.score
    /\ team_a.score > 0

\* a step that leaves the regulation state as it is
RegulationStateKept ==
    /\ team_a'.score = team_a.score
    /\ team_b'.score = team_b.score
    /\ zone' = zone
    /\ possession' = possession

\* C4: no step of resolve_shootout changes the regulation state: the two
\* scores, the zone and the possession stay as they were at full time.
C4_ShootoutKeepsRegulationState ==
    [][(pc \in ShootoutPcs) => RegulationStateKept]_vars

\* a sudden-death kick of side A has just been scored
C4_Witness ==
    /\ pc = "sd_kick_b"
    /\ so.goal_a
    /\ logging_enabled
    /\ log_count["SHOOTOUT_KICK"] > 0

\* C5: if either lineup has fewer than 11 players, simulate() raises nothing
\* and returns 0-0 with a log of exactly one entry, tagged 'error', whatever
\* the knockout flag and the logging flag; the clock stays at 0 and no free
\* kick, open-play step or shootout is run.
C5_AbandonedLogsOneError ==
    /\ Unplayable => pc \in {"start", "done"}
    /\ (pc = "done" /\ Unplayable)
          => /\ team_a.score = 0
             /\ team_b.score = 0
             /\ minute = 0
             /\ free_kick_events \in {FKSchedule1, FKSchedule2}
             /\ shootout_score_a = 0
             /\ shootout_score_b = 0
             /\ winner_on_penalties = None
             /\ log_len = 1
             /\ log_new = <<Entry(0, "error", None, "abandoned", <<>>)>>

\* C5 (amended): as C5, but the log holds exactly one entry, tagged 'error',
\* when logging is enabled, and no entry when logging is disabled.
C5_AbandonedLogsOneErrorIfLogging ==
    /\ Unplayable => pc \in {"start", "done"}
    /\ (pc = "done" /\ Unplayable)
          => /\ team_a.score = 0
             /\ team_b.score = 0
             /\ minute = 0
             /\ free_kick_events \in {FKSchedule1, FKSchedule2}
             /\ shootout_score_a = 0
             /\ shootout_score_b = 0
             /\ winner_on_penalties = None
             /\ logging_enabled
                   => /\ log_len = 1
                      /\ log_new = <<Entry(0, "error", None, "abandoned", <<>>)>>
             /\ ~logging_enabled => (log_len = 0 /\ log_new = <<>>)

\* an abandoned knockout match that was not logged
C5_Witness ==
    /\ pc = "done"
    /\ Unplayable
    /\ ~logging_enabled
    /\ is_knockout
    /\ Len(get_starting_11(team_b.lineup)) < SQUAD_SIZE

\* C6: whenever a match proceeds past the lineup check and is simulated, each
\* side's lineup holds exactly 11 players, for auto-selected lineups and for
\* a fixed list of player ids of any size.
C6_ElevenASide ==
    (pc # "start" /\ ~Unplayable)
        => /\ Len(get_starting_11(team_a.lineup)) = SQUAD_SIZE
           /\ Len(get_starting_11(team_b.lineup)) = SQUAD_SIZE

\* C7: in a played match with logging enabled the log holds exactly one
\* Halftime entry, whatever the free-kick schedule and the clock increments:
\* never more than one, and one once the loop has ended.
C7_OneHalftimeEntry ==
    (logging_enabled /\ ~Unplayable)
        => /\ log_count["Halftime"] <= 1
           /\ pc \notin {"start", "loop"} => log_count["Halftime"] = 1

\* C8: in every state of simulate() the minute is in 0..90, every log entry
\* carries a minute in 0..90, and once the main loop has ended (Full Time and
\* the shootout entries) the minute is exactly 90.
C8_ClockWithinMatch ==
    /\ minute \in 0..MATCH_MINUTES
    /\ \A i \in DOMAIN log_new : log_new[i].minute \in 0..MATCH_MINUTES
    /\ (pc \notin {"start", "loop"} /\ ~Unplayable)
          => /\ minute = MATCH_MINUTES
             /\ \A i \in DOMAIN log_new : log_new[i].minute = MATCH_MINUTES

\* the shootout of a logged match has just ended
C8_Witness ==
    /\ pc = "done"
    /\ log_new # <<>>
    /\ log_new[1].event_type = "SHOOTOUT_END"
    /\ log_new[1].minute = MATCH_MINUTES

\* C9: odds estimation never changes a Player: from the call of
\* get_prematch_odds on, through every run and after the return, every
\* player's morale is the value it had when the call was made, also when the
\* morale subsystem is switched on.
C9_OddsLeavePlayersAlone ==
    (mo.odds.orientation # "none") => morale = mo.db

\* C10: once _process_team_morale has run for a team, every player of that
\* team's roster, starter or not, has a morale in 0..100, whatever the morale
\* before, the result, the margin, the goals and the overrides were.
C10_MoraleClamped ==
    /\ (mo.stage \in {"team_b", "commit"}) =>
           \A id \in PlayerIds(team_a.team) : morale[id] \in 0..100
    /\ (mo.stage = "commit") =>
           \A id \in PlayerIds(team_b.team) : morale[id] \in 0..100

\* both teams are processed, and of the team processed last one player's
\* morale plus change was above 100 and another's below 0
C10_Witness ==
    /\ mo.stage = "commit"
    /\ \E id \in DOMAIN mo.changes :
           mo.db[id] + mo.changes[id] > 100 /\ morale[id] = 100
    /\ \E id \in DOMAIN mo.changes :
           mo.db[id] + mo.changes[id] < 0 /\ morale[id] = 0

\* the step in which db.session.commit() raised
CommitRaises == mo.stage = "commit" /\ mo'.commit = "failed"

\* simulate() goes on to its return with the result computed before the commit
ResultKept ==
    /\ pc' = "done"
    /\ mo'.stage = "returned"
    /\ team_a' = team_a
    /\ team_b' = team_b
    /\ shootout_score_a' = shootout_score_a
    /\ shootout_score_b' = shootout_score_b
    /\ winner_on_penalties' = winner_on_penalties

\* one entry, tagged error / DB_ERROR, is appended to the entries there were
OneDbErrorAppended ==
    /\ Len(log_new') = 1
    /\ log_new'[1].importance = "error"
    /\ log_new'[1].event_type = "DB_ERROR"
    /\ log_len' = Min(LogLenCap, log_len + 1)
    /\ log_count'["DB_ERROR"] = Min(LogCountCap, log_count["DB_ERROR"] + 1)
    /\ \A k \in LogKinds \ {"DB_ERROR"} : log_count'[k] = log_count[k]

\* C11 as stated: when the commit of the morale update raises, simulate()
\* returns normally with the score, the shootout tallies and the shootout
\* winner computed before, and one error entry of type DB_ERROR is appended to
\* the earlier log entries.
C11_CommitFailureLogsOneError ==
    [][CommitRaises => (ResultKept /\ OneDbErrorAppended)]_vars

\* C11, amended: as above with logging enabled; with logging disabled the
\* result is kept as well and the log stays as it was.
C11_CommitFailureKeepsResult ==
    [][CommitRaises =>
          /\ ResultKept
          /\ logging_enabled => OneDbErrorAppended
          /\ ~logging_enabled =>
                 (log_new' = <<>> /\ log_len' = log_len /\ log_count' = log_count)]_vars

\* the commit raised after a logged knockout match decided on penalties
C11_Witness ==
    /\ mo.commit = "failed"
    /\ pc = "done"
    /\ logging_enabled
    /\ log_count["DB_ERROR"] = 1
    /\ log_new # <<>>
    /\ log_new[1].event_type = "DB_ERROR"
    /\ winner_on_penalties # None
    /\ team_a.score > 0

\* the step in which _run_fixture_sims counts the result of a run
ResultCounted == pc = "done" /\ pc' = "odds"

\* the counters of the fixture the counted run belongs to, after the step
CountedTally ==
    IF mo.odds.orientation = "home" /\ mo'.odds.orientation = "away"
    THEN mo'.odds.home[1]
    ELSE FixtureTally(mo'.odds)

\* every simulator is headless and non-knockout; the counters of a fixture add
\* up to the runs counted; the away fixture starts after exactly simulations
\* home runs and the odds are returned after exactly simulations away runs
OddsTalliesAddUp ==
    LET odds == mo.odds
    IN  /\ ~logging_enabled /\ ~is_knockout
        /\ odds.simulations >= 1
        /\ odds.wins + odds.draws + odds.losses = odds.run
        /\ odds.run <= odds.simulations
        /\ odds.orientation = "home" => odds.home = <<>>
        /\ odds.orientation \in {"away", "over"} =>
               /\ Len(odds.home) = 1
               /\ odds.home[1].run = odds.simulations
               /\ odds.home[1].wins + odds.home[1].draws + odds.home[1].losses
                      = odds.simulations
        /\ odds.orientation = "over" => odds.run = odds.simulations
        /\ pc = "odds_returned" => odds.orientation = "over"

\* the counted run had the home side of its orientation as team A; exactly one
\* counter goes up by one, wins exactly when team A outscored team B; the goal
\* totals grow by team A's and team B's score
OneResultCounted ==
    LET before == FixtureTally(mo.odds)
        after == CountedTally
        home_side == IF mo.odds.orientation = "home" THEN mo.odds.user
                     ELSE mo.odds.enemy
    IN  /\ team_a.team = home_side /\ team_a.is_home /\ ~team_b.is_home
        /\ after.run = before.run + 1
        /\ after.wins = before.wins + (IF team_a.score > team_b.score THEN 1 ELSE 0)
        /\ after.losses = before.losses + (IF team_b.score > team_a.score THEN 1 ELSE 0)
        /\ after.draws = before.draws + (IF team_a.score = team_b.score THEN 1 ELSE 0)
        /\ after.goals_for = before.goals_for + team_a.score
        /\ after.goals_against = before.goals_against + team_b.score

LineupIds(lineup) == Range(Ids(get_starting_11(lineup)))

\* the ids of the players of a roster
RosterIds(players) == Range(Ids(players))

\* select_lineup has returned
LineupSelected == pc = "called" /\ call.fn = "select_lineup"

\* every position holds, in roster order, the roster's players of that
\* position with an id in ids
InRosterOrder(lineup, players, ids) ==
    \A pos \in Range(Position) :
        lineup[pos] = SelectSeq(players, LAMBDA p : p.position = pos /\ p.id \in ids)

\* a second selection with the same roster and ids gave the lineup of the first
SameLineupAgain == call.calls = 2 => call.lineup = call.earlier

AutoSelected == LineupSelected /\ call.fixed_lineup_ids = NoIds

\* p ranks before q: higher effective_skill, or the same and earlier in the roster
RanksBefore(players, i, j) ==
    LET eff(k) == effective_skill(players[k], DEFAULT_MORALE)
    IN  eff(i) > eff(j) \/ (eff(i) = eff(j) /\ i < j)

\* the roster places of the players of pos that fewer than FORMATION[pos]
\* players of pos rank before
QuotaPlaces(players, pos) ==
    {i \in DOMAIN players :
        /\ players[i].position = pos
        /\ Cardinality({j \in DOMAIN players : /\ players[j].position = pos
                                               /\ RanksBefore(players, j, i)})
               < FORMATION[pos]}

AllQuotaPlaces(players) == UNION {QuotaPlaces(players, pos) : pos \in Range(Position)}

\* the roster places of the players outside the quotas that fewer players
\* outside the quotas rank before than slots are open
FillUpPlaces(players) ==
    LET rest == DOMAIN players \ AllQuotaPlaces(players)
        open == SQUAD_SIZE - Cardinality(AllQuotaPlaces(players))
    IN  {i \in rest : Cardinality({j \in rest : RanksBefore(players, j, i)}) < open}

\* C14: automatic selection picks exactly min(11, roster size) distinct
\* players, each filed under their own position; when a position cannot fill
\* its quota the open slots go to the highest-ranked (by effective_skill)
\* players of any position not yet selected
C14_AutoLineupSize ==
    AutoSelected =>
        LET players == call.players
            starting_11 == get_starting_11(call.lineup)
        IN  /\ Len(starting_11) = Min(SQUAD_SIZE, Len(players))
            /\ \A i, j \in DOMAIN starting_11 :
                   i # j => starting_11[i].id # starting_11[j].id
            /\ \A i \in DOMAIN starting_11 : starting_11[i] \in Range(players)
            /\ \A pos \in Range(Position) : \A i \in DOMAIN call.lineup[pos] :
                   call.lineup[pos][i].position = pos
            /\ LineupIds(call.lineup)
                   = {players[i].id : i \in AllQuotaPlaces(players)
                                            \cup FillUpPlaces(players)}

\* a roster of twelve with three midfielders: the open slot goes to the fifth
\* defender (80 at shape 50), not to the second goalkeeper (50 at shape 100)
C14_Witness ==
    /\ AutoSelected
    /\ Len(call.players) = 12
    /\ Len(call.lineup["MIDFIELDER"]) = 3
    /\ Len(call.lineup["DEFENDER"]) = 5
    /\ Len(call.lineup["GOALKEEPER"]) = 1
    /\ 906 \in LineupIds(call.lineup)
    /\ 901 \in RosterIds(call.players) \ LineupIds(call.lineup)

\* the roster has players for every quota of the formation
QuotasFillable(players) ==
    \A pos \in Range(Position) :
        Cardinality({i \in DOMAIN players : players[i].position = pos}) >= FORMATION[pos]

\* C15: with at least 1 goalkeeper, 4 defenders, 4 midfielders and 2 forwards
\* on the roster the automatic lineup is exactly 1-4-4-2, each position
\* holding its quota of the highest effective_skill of that position, ties
\* going to the player earlier in roster order
C15_FormationQuotas ==
    (AutoSelected /\ QuotasFillable(call.players)) =>
        /\ Len(call.lineup["GOALKEEPER"]) = 1
        /\ Len(call.lineup["DEFENDER"]) = 4
        /\ Len(call.lineup["MIDFIELDER"]) = 4
        /\ Len(call.lineup["FORWARD"]) = 2
        /\ \A pos \in Range(Position) :
               Range(Ids(call.lineup[pos]))
                   = {call.players[i].id : i \in QuotaPlaces(call.players, pos)}

\* the whole pool: 903 and 905 tie for the last two places of the defence and
\* both precede 906; the better goalkeeper is the second of the roster
C15_Witness ==
    /\ AutoSelected
    /\ Len(call.players) = 13
    /\ Ids(call.lineup["GOALKEEPER"]) = <<902>>
    /\ Ids(call.lineup["DEFENDER"]) = <<904, 907, 903, 905>>
    /\ Len(call.lineup["MIDFIELDER"]) = 4
    /\ Len(call.lineup["FORWARD"]) = 2

\* logistic_probability has returned
LogisticReturned == pc = "called" /\ call.fn = "logistic_probability"

\* what logistic_probability returns for other arguments
ReturnedFor(strength_a, strength_b, scaling_factor) ==
    [returned |-> logistic_probability(strength_a, strength_b, scaling_factor),
     exp |-> exp_calls(strength_a, strength_b, scaling_factor)]

\* value v is below value w, both of one scaling factor: 0.0 is below
\* 1/(1+exp(e)), that is below 1.0, and 1/(1+exp(e)) falls as e grows
ValueBelow(v, w) ==
    \/ v.returned = "zero" /\ w.returned \in {"mid", "one"}
    \/ v.returned = "mid" /\ w.returned = "one"
    \/ v.returned = "mid" /\ w.returned = "mid" /\ v.exp[1][1] > w.exp[1][1]

\* v + w = 1: 0.0 and 1.0, or 1/(1+exp(e)) and 1/(1+exp(-e))
ValuesAddToOne(v, w) ==
    \/ v.returned = "zero" /\ w.returned = "one"
    \/ v.returned = "one" /\ w.returned = "zero"
    \/ v.returned = "mid" /\ w.returned = "mid" /\ v.exp[1][1] = 0 - w.exp[1][1]

\* the exponent -(a - b)/s of the returned call is within [-10, 10]
Unclamped(strength_a, strength_b, scaling_factor) ==
    Abs(strength_a - strength_b) <= 10 * scaling_factor * 100000

\* C16: for all strengths a, b and every positive scale s the value of
\* logistic_probability(a, b, s) lies in [0,1], is strictly increasing in the
\* advantage a - b, and logistic_probability(a, b, s) +
\* logistic_probability(b, a, s) = 1
C16_LogisticStrictlyIncreasing ==
    LogisticReturned =>
        /\ call.returned \in {"zero", "mid", "one"}
        /\ \A a \in LogisticStrengths, b \in LogisticStrengths :
               a - b > call.strength_a - call.strength_b =>
                   ValueBelow(call, ReturnedFor(a, b, call.scaling_factor))
        /\ ValuesAddToOne(call, ReturnedFor(call.strength_b, call.strength_a,
                                            call.scaling_factor))

\* C16, amended: the value lies in [0,1], never falls as the advantage a - b
\* grows, and grows strictly unless both advantages are above 10 s (both
\* values 1.0) or both below -10 s (both values 0.0); the values of (a, b)
\* and (b, a) add up to 1
C16_LogisticIncreasingUntilClamped ==
    LogisticReturned =>
        /\ call.returned \in {"zero", "mid", "one"}
        /\ \A a \in LogisticStrengths, b \in LogisticStrengths :
               a - b > call.strength_a - call.strength_b =>
                   LET other == ReturnedFor(a, b, call.scaling_factor)
                       here == Unclamped(call.strength_a, call.strength_b,
                                         call.scaling_factor)
                       there == Unclamped(a, b, call.scaling_factor)
                   IN  /\ ~ValueBelow(other, call)
                       /\ (here \/ there) => ValueBelow(call, other)
                       /\ ~(here \/ there) =>
                              (ValueBelow(call, other)
                                  <=> call.strength_a - call.strength_b < 0 /\ a - b > 0)
        /\ ValuesAddToOne(call, ReturnedFor(call.strength_b, call.strength_a,
                                            call.scaling_factor))

\* the advantage is just above 10 at scale 1: 1.0 is returned, as it is for
\* the greater advantages
C16_Witness ==
    /\ LogisticReturned
    /\ call.scaling_factor = 1
    /\ call.strength_a - call.strength_b = 1000001
    /\ call.returned = "one"
    /\ ReturnedFor(2000000, 0, 1).returned = "one"

\* C17: logistic_probability never propagates an arithmetic error: when
\* -(a - b)/s is above 10 it returns exactly 0.0 and when it is below -10
\* exactly 1.0, math.exp not being called; for every other input math.exp is
\* called once with an exponent within [-10, 10]
C17_ExponentClamped ==
    LogisticReturned =>
        LET exponent == 0 - (call.strength_a - call.strength_b)
            ten == 10 * call.scaling_factor * 100000
        IN  /\ ~call.caught
            /\ exponent > ten => (call.returned = "zero" /\ call.exp = <<>>)
            /\ exponent < 0 - ten => (call.returned = "one" /\ call.exp = <<>>)
            /\ (exponent <= ten /\ exponent >= 0 - ten) =>
                   /\ call.returned = "mid"
                   /\ Len(call.exp) = 1
                   /\ call.exp[1] = <<exponent, call.scaling_factor>>
                   /\ ~exp_overflows(call.exp[1])

\* a is 200.00001 below b at scale 20: the exponent is above 10 and 0.0 is
\* returned without a call of math.exp
C17_Witness ==
    /\ LogisticReturned
    /\ call.scaling_factor = PENALTY_SCALING
    /\ call.strength_b - call.strength_a = 20000001
    /\ call.returned = "zero"
    /\ call.exp = <<>>

\* goal_probability has returned
GoalReturned == pc = "called" /\ call.fn = "goal_probability"

\* C18: goal_probability returns a value in [0,1] for every shooter rating,
\* keeper rating, noise draw, scale and conversion factor used by the
\* simulator, the penalty factor 1.15, the direct-free-kick factors and the
\* distance-modulated factor included: no conversion factor is negative and
\* a product above 1.0 is returned as 1.0
C18_GoalProbabilityInUnitInterval ==
    GoalReturned =>
        LET factor == final_conversion_factor(call.base_conversion_factor,
                                              call.distance)
        IN  /\ factor >= 0
            /\ call.returned \in {"zero", "mid", "one"}
            /\ goal_probability_unclamped(call.shooter_eff, call.keeper_eff,
                                          call.s_noise, call.k_noise, call.scaling,
                                          factor) = "above"
                   => call.returned = "one"

\* a shot from 5 metres (factor 1.07) of a shooter far better than the
\* keeper: the logistic value times 1.07 is above 1.0 and 1.0 is returned
C18_Witness ==
    /\ GoalReturned
    /\ call.distance = <<SHOT_DISTANCE_MIN>>
    /\ final_conversion_factor(call.base_conversion_factor, call.distance) = 1070
    /\ logistic_probability(call.shooter_eff * call.s_noise,
                            call.keeper_eff * call.k_noise, call.scaling) = "mid"
    /\ goal_probability_unclamped(call.shooter_eff, call.keeper_eff, call.s_noise,
                                  call.k_noise, call.scaling, 1070) = "above"
    /\ call.returned = "one"

\* effective_skill has returned
SkillReturned == pc = "called" /\ call.fn = "effective_skill"

\* the player of the call with another skill or shape
WithSkill(skill) == [call.player EXCEPT !.skill = skill]
WithShape(shape) == [call.player EXCEPT !.shape = shape]

\* C19: with the morale toggle off, for every skill and every shape in 0..100
\* effective_skill = skill * (0.3 + 0.7 * shape / 100) (here in thousandths);
\* it is non-decreasing in shape and in skill, 0.3 * skill at shape 0, skill
\* at shape 100, and does not depend on morale
C19_EffectiveSkillFormula ==
    (SkillReturned /\ call.player.shape <= 100) =>
        LET skill == call.player.skill
            shape == call.player.shape
        IN  /\ PLAYER_MORALE_EFFECT_ACTIVE = 0
            /\ call.returned * 100 = skill * (30000 + 700 * shape)
            /\ shape < 100 =>
                   effective_skill(WithShape(shape + 1), call.morale) >= call.returned
            /\ effective_skill(WithSkill(skill + 1), call.morale) >= call.returned
            /\ shape = 0 => call.returned * 10 = 3000 * skill
            /\ shape = 100 => call.returned = 1000 * skill
            /\ \A m \in MoraleValues :
                   effective_skill(call.player, m) = call.returned

\* skill 65 at shape 100 and morale 0: exactly the skill is returned
C19_Witness ==
    /\ SkillReturned
    /\ call.player.skill = 65
    /\ call.player.shape = 100
    /\ call.morale = 0
    /\ call.returned = 65000

\* C20: effective_skill never rewards shape above 100: for every shape value,
\* values above 100 included, effective_skill is at most skill
C20_ShapeNeverRewarded ==
    SkillReturned => call.returned <= 1000 * call.player.skill

\* _generate_free_kicks has returned
FreeKicksGenerated == pc = "called" /\ call.fn = "_generate_free_kicks"

\* C21: in the configuration that sets the free-kick mean to 0
\* (AVG_FREE_KICKS_PER_GAME = 0, FREE_KICK_VARIANCE = 0) free kicks are
\* disabled: _generate_free_kicks schedules no events, so that none is
\* resolved in the match
C21_MeanZeroDisablesFreeKicks ==
    (FreeKicksGenerated /\ call.avg = 0 /\ call.variance = 0) => call.events = <<>>

\* the fields of a run that are not telemetry
MatchState(run) ==
    [minute |-> run.minute, zone |-> run.zone, possession |-> run.possession,
     score_a |-> run.score_a, score_b |-> run.score_b]

TwoRuns == call.fn = "simulate"

\* C22: two runs of the loop on the same random draws that start from
\* different match_stats and dominance_score values are in the same minute,
\* zone, possession and score after every pass, and return the same scores
C22_DominanceObservational ==
    TwoRuns =>
        /\ MatchState(call.runs[1]) = MatchState(call.runs[2])
        /\ call.stage = "returned" => call.results[1] = call.results[2]

\* both runs have returned after a goal, with telemetry that differs
C22_Witness ==
    /\ TwoRuns
    /\ call.stage = "returned"
    /\ call.turns >= 2
    /\ call.runs[1].score_a + call.runs[1].score_b >= 2
    /\ call.runs[1].dominance_score # call.runs[2].dominance_score
    /\ call.runs[1].match_stats # call.runs[2].match_stats

\* a lead that the trailing side cannot make up with the kicks it has left
Settled(a, b, left_a, left_b) == a > b + left_b \/ b > a + left_a

\* a kick of the best-of-five phase is taken in this step
BestOfFiveKick ==
    /\ pc \in {"so_kick_a", "so_kick_b"}
    /\ pc' \in {"so_kick_a", "so_kick_b", "so_after"}
    /\ pc' # pc

\* the kicks each side has left of its five after the kick of this step
LeftAfterKick(side) ==
    IF side = "B" /\ pc = "so_kick_a" THEN SHOOTOUT_ROUNDS - so.i
    ELSE SHOOTOUT_ROUNDS - 1 - so.i

KickSettles ==
    Settled(shootout_score_a', shootout_score_b', LeftAfterKick("A"), LeftAfterKick("B"))

\* C23: in the best-of-five phase kicking stops after a kick exactly when that
\* kick leaves one side with a lead above the kicks the other side has left,
\* or when it was the tenth kick; no kick is due while the outcome is settled,
\* and the tallies differ whenever the phase stops before the tenth kick
C23_BestOfFiveEarlyStop ==
    /\ [][BestOfFiveKick =>
              /\ (pc' = "so_after") <=>
                     (KickSettles \/ (pc = "so_kick_b" /\ so.i = SHOOTOUT_ROUNDS - 1))
              /\ KickSettles => shootout_score_a' # shootout_score_b']_vars
    /\ [](pc = "so_kick_a" =>
              ~Settled(shootout_score_a, shootout_score_b, SHOOTOUT_ROUNDS - so.i,
                       SHOOTOUT_ROUNDS - so.i))
    /\ [](pc = "so_kick_b" =>
              ~Settled(shootout_score_a, shootout_score_b, SHOOTOUT_ROUNDS - 1 - so.i,
                       SHOOTOUT_ROUNDS - so.i))

\* the phase has stopped in its fourth round, team B leading 3-1
C23_Witness ==
    /\ pc = "so_after"
    /\ so.i = 3
    /\ shootout_score_a = 1
    /\ shootout_score_b = 3

\* the while loop of simulate() has ended
LoopEnded == pc = "loop" /\ minute >= MATCH_MINUTES

\* C24: when the main loop of simulate() ends at minute 90 the free-kick queue
\* is empty: every scheduled free kick has been dequeued and resolved
C24_FreeKickQueueEmptyAtFullTime == LoopEnded => free_kick_events = <<>>

SortedByMinute(events) ==
    \A i, j \in DOMAIN events : i < j => events[i].minute <= events[j].minute

\* the free-kick queue changes in this step of a match
QueueChanges == pc = "loop" /\ free_kick_events' # free_kick_events

\* C25: the free-kick queue is sorted by minute from its creation on and
\* changes only by losing its first event; that event is due (the clock has
\* reached its minute), it is resolved with the clock at exactly its minute,
\* its FREE_KICK log entry carries that minute, and no event left in the
\* queue is scheduled before it
C25_FreeKicksInScheduleOrder ==
    /\ [](pc \in {"start", "loop"} => SortedByMinute(free_kick_events))
    /\ [][QueueChanges =>
              LET fk_event == Head(free_kick_events)
              IN  /\ free_kick_events # <<>>
                  /\ free_kick_events' = Tail(free_kick_events)
                  /\ fk_event.minute <= minute
                  /\ minute' = fk_event.minute
                  /\ \A i \in DOMAIN log_new' :
                         log_new'[i].event_type = "FREE_KICK"
                             => log_new'[i].minute = fk_event.minute
                  /\ \A i \in DOMAIN free_kick_events' :
                         free_kick_events'[i].minute >= fk_event.minute]_vars

\* a logged free kick has just been resolved at minute 44, a second event of
\* minute 44 next in the queue
C25_Witness ==
    /\ pc = "loop"
    /\ minute = 44
    /\ \E i \in DOMAIN log_new : log_new[i].event_type = "FREE_KICK"
    /\ free_kick_events # <<>>
    /\ free_kick_events[1].minute = 44

\* a pass of the loop of simulate() that ticks the clock and plays open play
OpenPlayStep ==
    /\ pc = "loop"
    /\ pc' = "loop"
    /\ minute' # minute
    /\ free_kick_events' = free_kick_events

ScoresUnchanged == team_a'.score = team_a.score /\ team_b'.score = team_b.score

HasText(entries, text) == \E i \in DOMAIN entries : entries[i].text = text

\* C26: an open-play step from zone MIDFIELD changes neither score and either
\* is won, moving the zone to the attack zone of the side in possession with
\* possession unchanged, or is lost, giving possession to the other side with
\* the zone still MIDFIELD; the entry logged tells which
C26_MidfieldStep ==
    [][(OpenPlayStep /\ zone = "M") =>
           /\ ScoresUnchanged
           /\ \/ zone' = possession /\ possession' = possession
              \/ zone' = "M" /\ possession' = Other(possession)
           /\ HasText(log_new', "advances") => zone' = possession
           /\ HasText(log_new', "wins the ball") => zone' = "M"]_vars

\* team B has won a logged midfield contest
C26_Witness ==
    /\ pc = "loop"
    /\ zone = "B"
    /\ possession = "B"
    /\ HasText(log_new, "advances")

HasType(entries, event_type) ==
    \E i \in DOMAIN entries : entries[i].event_type = event_type

\* a scheduled free kick is dequeued and resolved in this step
FreeKickStep == pc = "loop" /\ free_kick_events' = Tail(free_kick_events)
                /\ free_kick_events # <<>>

\* the attack step of this step, as <<attacker>>: open play from zone A or B, or
\* a logged indirect free kick
AttackStepOf ==
    IF OpenPlayStep /\ zone # "M" THEN <<zone>>
    ELSE IF FreeKickStep /\ HasType(log_new', "INDIRECT_FK_ATTACK")
         THEN <<Head(free_kick_events).team>>
    ELSE <<>>

ScoreOf(side) == IF side = "A" THEN team_a.score ELSE team_b.score
ScoreAfter(side) == IF side = "A" THEN team_a'.score ELSE team_b'.score

\* C27: after every attack step the zone is MIDFIELD and possession belongs to
\* the defending side; the attacker's score rose by 1 or by 0 and the
\* defender's score is unchanged
C27_AttackStepResets ==
    [][AttackStepOf # <<>> =>
           LET attacker == AttackStepOf[1]
               defender == Other(attacker)
           IN  /\ zone' = "M"
               /\ possession' = defender
               /\ ScoreAfter(attacker) \in {ScoreOf(attacker), ScoreOf(attacker) + 1}
               /\ ScoreAfter(defender) = ScoreOf(defender)]_vars

\* the zone, possession and scores after this step are those of st
StepGives(st) ==
    /\ zone' = st.zone
    /\ possession' = st.possession
    /\ team_a'.score = st.score_a
    /\ team_b'.score = st.score_b

\* C28: a resolved free kick is a safe restart (zone MIDFIELD, possession with
\* the kicking team, scores unchanged), or a direct free kick (zone MIDFIELD,
\* possession with the defending team, at most one goal for the kicking team),
\* or an indirect one: an attack step of the kicking team from its own attack
\* zone with the defence modifier of the pitch zone; the entries logged tell
\* which
C28_FreeKickOutcomes ==
    [][FreeKickStep =>
           LET fk_event == Head(free_kick_events)
               attacker == fk_event.team
               defender == Other(attacker)
               handed == [Now EXCEPT !.minute = fk_event.minute,
                                     !.possession = attacker, !.zone = attacker]
               Restart == /\ zone' = "M"
                          /\ possession' = attacker
                          /\ ScoresUnchanged
               Direct == /\ zone' = "M"
                         /\ possession' = defender
                         /\ ScoreAfter(attacker) \in {ScoreOf(attacker),
                                                      ScoreOf(attacker) + 1}
                         /\ ScoreAfter(defender) = ScoreOf(defender)
               Indirect == \E st \in resolve_attack(handed, attacker, defender,
                                                    FK_ZONES[fk_event.zone].def_mod) :
                               StepGives(st)
           IN  /\ Restart \/ Direct \/ Indirect
               /\ HasType(log_new', "FK_RESTART") => Restart
               /\ HasType(log_new', "DIRECT_FK") => Direct
               /\ HasType(log_new', "INDIRECT_FK_ATTACK") => Indirect]_vars

ShooterMissing(attacker) == ShooterCandidates(Team(attacker).lineup) = <<>>
KeeperMissing(defender) == get_goalkeeper(Team(defender).lineup) = <<>>

\* the latest step logged a created chance and nothing after it
ChanceLoggedLast(entries) ==
    entries # <<>> /\ entries[Len(entries)].event_type = "SHOT_OPPORTUNITY"

\* C29: when an attack step comes to a shot and the attacking lineup has no
\* forward or midfielder or the defending lineup has no goalkeeper, the match
\* goes on without an exception, no score changes, nothing is logged after the
\* created chance, possession passes to the defending side and the zone is
\* MIDFIELD
C29_ShotSkippedWithoutPlayers ==
    [][(/\ AttackStepOf # <<>>
        /\ HasType(log_new', "SHOT_OPPORTUNITY")
        /\ \/ ShooterMissing(AttackStepOf[1])
           \/ KeeperMissing(Other(AttackStepOf[1]))) =>
           /\ pc' = "loop"
           /\ ScoresUnchanged
           /\ ChanceLoggedLast(log_new')
           /\ zone' = "M"
           /\ possession' = Other(AttackStepOf[1])]_vars

\* a shot of the side without forwards and midfielders has been skipped
C29_Witness ==
    /\ pc = "loop"
    /\ ChanceLoggedLast(log_new)
    /\ ShooterMissing("A")
    /\ zone = "M"
    /\ possession = "B"

\* the side _process_team_morale has just run for, as <<side>>
TeamProcessed ==
    IF mo.stage = "team_b" THEN <<"A">>
    ELSE IF mo.stage = "commit" THEN <<"B">>
    ELSE <<>>

NonStarters(match_team) ==
    PlayerIds(match_team.team) \ Range(get_starting_11(match_team.lineup))

\* int(round((target - morale) * rate)), the rate in hundredths
DriftOnly(player_morale, params) ==
    RoundHalfEven((params["MORALE_DRIFT_TARGET"] - player_morale)
                      * params["MORALE_DRIFT_RATE"], 100)

\* C30: once _process_team_morale has run for a team, the morale change of
\* every player of its roster who did not start is the rounded drift towards
\* the target from that player's pre-match morale, whatever the result, the
\* margin and the goals of the match were, and the player's morale is the
\* pre-match morale plus that change, kept within 0..100
C30_NonStartersOnlyDrift ==
    TeamProcessed # <<>> =>
        \A id \in NonStarters(Team(TeamProcessed[1])) :
            /\ mo.changes[id] = DriftOnly(mo.db[id], mo.morale_params)
            /\ morale[id] = Max(0, Min(100, mo.db[id] + mo.changes[id]))

\* team A has won by three goals and a player of its roster who did not start
\* has drifted upwards
C30_Witness ==
    /\ mo.stage = "team_b"
    /\ mo.result["A"].result = "WIN"
    /\ mo.result["A"].margin = 3
    /\ \E id \in NonStarters(team_a) : mo.changes[id] > 0 /\ morale[id] > mo.db[id]

Starters(match_team) == Range(get_starting_11(match_team.lineup))

\* the outcome _process_team_morale has worked with for side, its margin
\* multiplier replaced by m (hundredths)
OutcomeWith(side, m) ==
    [MoraleOutcome(mo.result[side].result, mo.result[side].margin,
                   mo.avg_morale[side], mo.morale_params)
         EXCEPT !.margin_multiplier = m]

\* the margin multiplier that scales a win or a loss whose absolute margin
\* is above the threshold, and no draw
MultiplierAboveThreshold(side) ==
    IF /\ mo.result[side].result \in {"WIN", "LOSS"}
       /\ Abs(mo.result[side].margin) > mo.morale_params["MORALE_MARGIN_THRESHOLD"]
    THEN mo.morale_params["MORALE_MARGIN_MULTIPLIER"]
    ELSE 100

\* C31: once _process_team_morale has run for a team, the morale change of
\* each of its starters is the one computed with MORALE_MARGIN_MULTIPLIER
\* applied exactly when the result is a win or a loss whose absolute goal
\* margin exceeds MORALE_MARGIN_THRESHOLD
C31_MultiplierAboveThreshold ==
    TeamProcessed # <<>> =>
        LET side == TeamProcessed[1]
        IN  \A id \in Starters(Team(side)) :
                mo.changes[id] =
                    total_change(Player(id), mo.db[id], TRUE, mo.goals[id],
                                 OutcomeWith(side, MultiplierAboveThreshold(side)),
                                 mo.morale_params)

\* the mean effective_skill, in thousandths, of the players with the ids of a
\* non-empty sequence
MeanEffectiveSkill(ids) ==
    SumEff([i \in DOMAIN ids |-> Player(ids[i])], morale) \div Len(ids)

\* the strengths kept by match_team are those of its lineup
StrengthsOfLineup(match_team) ==
    \A pos \in Range(Position) :
        /\ match_team.base_zonal_strength[pos] =
               IF match_team.lineup[pos] = <<>> THEN 20000
               ELSE MeanEffectiveSkill(match_team.lineup[pos])
        /\ match_team.zonal_strength[pos] =
               IF match_team.is_home
               THEN match_team.base_zonal_strength[pos] * HOME_ADVANTAGE_BOOST
               ELSE match_team.base_zonal_strength[pos] * 100

\* C32: for each position base_zonal_strength is the mean effective_skill of
\* the lineup's players there, or 20 when the lineup has none; zonal_strength
\* is base_zonal_strength times HOME_ADVANTAGE_BOOST for the home side and
\* base_zonal_strength itself for the away side; both are kept by the team
C32_ZonalStrengths ==
    /\ team_a.is_home /\ StrengthsOfLineup(team_a)
    /\ ~team_b.is_home /\ StrengthsOfLineup(team_b)

\* a match is on between a home side without midfielders and forwards and an
\* away side with players at every position
C32_Witness ==
    /\ pc = "loop"
    /\ minute > 0
    /\ team_a.lineup["MIDFIELDER"] = <<>>
    /\ team_a.base_zonal_strength["FORWARD"] = 20000
    /\ team_a.zonal_strength["FORWARD"] = 20000 * HOME_ADVANTAGE_BOOST
    /\ \A pos \in Range(Position) : team_b.lineup[pos] # <<>>
    /\ team_b.zonal_strength["FORWARD"] = team_b.base_zonal_strength["FORWARD"] * 100

SpecialistReturned == pc = "called" /\ call.fn \in SpecialistRatings

\* attribute x (0.5 + 0.5 x shape / 100), in thousandths, times 1.15 when
\* bonus holds
RatingWith(attribute, shape, bonus) ==
    IF bonus THEN (attribute * (500 + shape * 5) * TRAIT_MULTIPLIER) \div 100
    ELSE attribute * (500 + shape * 5)

\* the returned rating is no greater than that of the same player with the
\* attribute or the shape raised
NoGreaterWhenRaised ==
    \A attribute \in AttributeValues, shape \in SpecialistShapes :
        (attribute >= call.attribute /\ shape >= call.player.shape) =>
            call.returned <=
                SpecialistRating(call.fn,
                                 SpecialistCall(call.fn, call.player.position,
                                                attribute, shape).player)

\* C33 as stated: each of the three effective ratings is
\* attribute x (0.5 + 0.5 x shape/100), times 1.15 exactly when the attribute
\* is 65 or more, for a player of any position, and is non-decreasing in the
\* attribute and in shape
C33_SpecialistBonusAnyPosition ==
    SpecialistReturned =>
        /\ call.returned = RatingWith(call.attribute, call.player.shape,
                                      call.attribute >= TRAIT_THRESHOLD)
        /\ NoGreaterWhenRaised

\* what the code computes (C33): as above for free_kick_ability and
\* penalty_taking; the penalty_saving rating is multiplied by 1.15 exactly when
\* the attribute is 65 or more and the player's position is goalkeeper
C33_SpecialistBonus ==
    SpecialistReturned =>
        /\ call.returned =
               RatingWith(call.attribute, call.player.shape,
                          /\ call.attribute >= TRAIT_THRESHOLD
                          /\ \/ call.fn # "effective_penalty_saving"
                             \/ call.player.position = "GOALKEEPER")
        /\ NoGreaterWhenRaised

\* the free-kick rating of a defender at the threshold, out of shape, has the
\* bonus: 65 x 0.75 x 1.15
C33_Witness ==
    /\ SpecialistReturned
    /\ call.fn = "effective_fk_ability"
    /\ call.player.position = "DEFENDER"
    /\ call.attribute = TRAIT_THRESHOLD
    /\ call.player.shape = 50
    /\ call.returned = 56062

\* the place of id in the starting eleven of side
LineupPlace(side, id) ==
    LET starters == get_starting_11(Team(side).lineup)
    IN  CHOOSE i \in DOMAIN starters : starters[i] = id

\* the rank of starter id among the starters of side who are not goalkeepers,
\* by penalty_taking descending, ties in lineup order; 0 for a goalkeeper
PenaltyRank(side, id) ==
    LET outfield == {q \in Range(get_starting_11(Team(side).lineup)) :
                        Player(q).position # "GOALKEEPER"}
        Ahead(q) == \/ Player(q).penalty_taking > Player(id).penalty_taking
                    \/ /\ Player(q).penalty_taking = Player(id).penalty_taking
                       /\ LineupPlace(side, q) < LineupPlace(side, id)
    IN  IF id \in outfield THEN 1 + Cardinality({q \in outfield : Ahead(q)}) ELSE 0

\* the kick of a best-of-five round was taken
BestOfFiveKickA == ShootoutKickA /\ pc' # "raised"
BestOfFiveKickB == ShootoutKickB /\ pc' # "raised"

KickerRanked(shootout, side, rank) ==
    /\ shootout.kicker # <<>>
    /\ PenaltyRank(side, shootout.kicker[1]) = rank

NoTwice(takers) ==
    \A j, k \in DOMAIN takers : j # k => takers[j] # takers[k]

\* C34: the kick of round i of the best-of-five phase is taken by the side's
\* i-th ranked starter among those who are not goalkeepers, by penalty_taking
\* descending and ties in lineup order; the takers of a side are distinct; no
\* kick of the shootout, sudden death included, is taken by a goalkeeper
C34_ShootoutKickerOrder ==
    /\ [][BestOfFiveKickA => KickerRanked(so', "A", so.i + 1)]_vars
    /\ [][BestOfFiveKickB => KickerRanked(so', "B", so.i + 1)]_vars
    /\ [](NoTwice(so.takers_a) /\ NoTwice(so.takers_b))
    /\ [](so.kicker # <<>> => Player(so.kicker[1]).position # "GOALKEEPER")

\* Lions' fifth kick is taken by player 110, who ties with 111 on
\* penalty_taking 58 and stands before 111 in the lineup; the phase ends level
C34_Witness ==
    /\ pc = "so_kick_b"
    /\ team_a.team = "Lions"
    /\ so.i = 4
    /\ so.kicker = <<110>>
    /\ Len(so.takers_a) = SHOOTOUT_ROUNDS
    /\ Player(110).penalty_taking = Player(111).penalty_taking

InSuddenDeath == pc \in {"sd_kick_a", "sd_kick_b"}

\* the best-of-five phase was played to its last kick, team B's fifth
AllTenKicksTaken ==
    /\ so.i + 1 = SHOOTOUT_ROUNDS
    /\ Len(so.takers_b) = SHOOTOUT_ROUNDS
    /\ so.kicker = <<so.takers_b[SHOOTOUT_ROUNDS]>>

\* the starters of side who are not goalkeepers and not among its five takers,
\* in lineup order, or the takers when there is none
SuddenDeathList(side, takers) ==
    LET starters == get_starting_11(Team(side).lineup)
        left == SelectSeq(starters,
                          LAMBDA id : /\ Player(id).position # "GOALKEEPER"
                                      /\ id \notin Range(takers))
    IN  IF left = <<>> THEN takers ELSE left

\* entry r mod len of a sudden-death list
EntryOfRound(list, r) == list[(r % Len(list)) + 1]

TalliesCompared ==
    \/ shootout_score_a' # shootout_score_a
    \/ shootout_score_b' # shootout_score_b
    \/ pc' = "so_end"

\* C35: sudden death is entered only with level tallies after all ten kicks of
\* the best-of-five phase; in a sudden-death round team A's kick and then team
\* B's are taken before the tallies are counted and compared, the kicker being
\* entry round_num mod len of the side's sudden-death list; a shootout decided
\* in sudden death ends with tallies that differ by exactly 1
C35_SuddenDeath ==
    /\ [][SuddenDeathStart =>
              /\ shootout_score_a = shootout_score_b
              /\ AllTenKicksTaken
              /\ so'.rem_a = SuddenDeathList("A", so.takers_a)
              /\ so'.rem_b = SuddenDeathList("B", so.takers_b)]_vars
    /\ [][pc = "sd_kick_a" =>
              /\ pc' = "sd_kick_b"
              /\ ~TalliesCompared
              /\ so'.kicker = <<EntryOfRound(so.rem_a, so.round_num)>>]_vars
    /\ [][pc = "sd_kick_b" =>
              /\ pc' \in {"sd_kick_a", "so_end"}
              /\ so'.kicker = <<EntryOfRound(so.rem_b, so.round_num)>>
              /\ so'.round_num % Len(so.rem_a) = (so.round_num + 1) % Len(so.rem_a)
              /\ so'.round_num % Len(so.rem_b) = (so.round_num + 1) % Len(so.rem_b)
              /\ (pc' = "so_end") = (shootout_score_a' # shootout_score_b')]_vars
    /\ [](pc = "sd_kick_a" => shootout_score_a = shootout_score_b)
    /\ [](pc = "so_end" /\ so.rem_a # <<>> =>
              \/ shootout_score_a = shootout_score_b + 1
              \/ shootout_score_b = shootout_score_a + 1)

\* a shootout won by team A in the third round of sudden death
C35_Witness ==
    /\ pc = "so_end"
    /\ so.rem_a # <<>>
    /\ so.round_num = 3
    /\ so.kicker = <<EntryOfRound(so.rem_b, 2)>>
    /\ shootout_score_a = shootout_score_b + 1

\* C36: between the steps of simulate(), from the constructor on, zone A goes
\* with possession of team A and zone B with possession of team B; the zone is
\* one of M, A, B and possession is one of the two teams
C36_ZonePossessionConsistent ==
    /\ zone \in {"M", "A", "B"}
    /\ possession \in {"A", "B"}
    /\ zone = "A" => possession = "A"
    /\ zone = "B" => possession = "B"

\* after an open-play step the away side stands in its attack zone
C36_Witness ==
    /\ pc = "loop"
    /\ minute > 0
    /\ zone = "B"
    /\ possession = "B"

\* the minute of the entry appended last, the clock when nothing is appended
LastLoggedMinute == IF log_new = <<>> THEN minute ELSE log_new[Len(log_new)].minute

\* the minutes of the entries appended by one step do not decrease
LoggedInOrder(entries) ==
    \A j, k \in DOMAIN entries : j < k => entries[j].minute <= entries[k].minute

\* C37: the clock never decreases during simulate(): the minute after a step
\* is at least the minute before it, and the minutes of successive log entries
\* do not decrease
C37_ClockNeverDecreases ==
    [][/\ minute' >= minute
       /\ LoggedInOrder(log_new')
       /\ (log_new # <<>> /\ log_new' # <<>>) => log_new'[1].minute >= LastLoggedMinute]_vars

LoopLeft == pc \notin {"start", "loop"} /\ ~Unplayable

\* 'Full Time' is in the log once after the loop and not before
FullTimeLoggedOnce ==
    logging_enabled =>
        log_count["Full Time"] = (IF LoopLeft THEN 1 ELSE 0)

\* C38: the regulation loop of simulate() terminates: from every state of the
\* loop the clock reaches 90 and the loop is left; every tick advances the
\* clock, every dequeued free kick shortens the queue and does not advance the
\* clock; 'Full Time' is logged exactly once when logging is enabled
C38_RegulationLoopTerminates ==
    /\ (pc = "loop") ~> (LoopLeft /\ minute = MATCH_MINUTES)
    /\ [][Tick => minute' > minute]_vars
    /\ [][ProcessScheduledFreeKick =>
              /\ Len(free_kick_events') < Len(free_kick_events)
              /\ minute' <= minute]_vars
    /\ []FullTimeLoggedOnce

\* a logged match after full time whose clock was set back by a free kick of
\* minute 89: the event of minute 90 is still queued
C38_Witness ==
    /\ LoopLeft
    /\ logging_enabled
    /\ minute = MATCH_MINUTES
    /\ log_count["Full Time"] = 1
    /\ Len(free_kick_events) >= 1
    /\ log_count["FREE_KICK"] >= 1

GoalEntries(entries) == {i \in DOMAIN entries : entries[i].event_type \in GoalTypes}

GoalsCounted == team_a.score + team_b.score

\* the goals a step has added to the two scores
GoalsOfStep == (team_a'.score - team_a.score) + (team_b'.score - team_b.score)

\* as many goal entries as goals in the step, each printing the scores the
\* goal has led to; no score goes down
GoalEntriesShowScores ==
    /\ team_a'.score >= team_a.score
    /\ team_b'.score >= team_b.score
    /\ logging_enabled =>
           /\ Cardinality(GoalEntries(log_new')) = GoalsOfStep
           /\ \A i \in GoalEntries(log_new') :
                  log_new'[i].shown = <<team_a'.score, team_b'.score>>

\* the Full Time entry prints the scores of that moment, and they are the
\* scores returned: no score changes once the loop is left
FullTimeShowsResult ==
    /\ \A i \in DOMAIN log_new' :
           log_new'[i].text = "Full Time" =>
               log_new'[i].shown = <<team_a'.score, team_b'.score>>
    /\ pc \notin {"start", "loop"} => GoalsOfStep = 0

\* C39: with logging enabled the GOAL, GOAL_FK and GOAL_PENALTY entries are as
\* many as team_a.score + team_b.score (counted up to LogCountCap); each such
\* entry prints the scores right after its goal; scores never decrease; the
\* Full Time entry prints the scores that are returned
C39_ScoresAndLogAgree ==
    /\ [](logging_enabled => log_count["GOALS"] = Min(LogCountCap, GoalsCounted))
    /\ [][GoalEntriesShowScores /\ FullTimeShowsResult]_vars

\* team B has converted an in-game penalty to 1-1
C39_Witness ==
    /\ pc = "loop"
    /\ logging_enabled
    /\ team_a.score = 1
    /\ team_b.score = 1
    /\ \E i \in DOMAIN log_new :
           /\ log_new[i].event_type = "GOAL_PENALTY"
           /\ log_new[i].shown = <<1, 1>>
    /\ log_count["GOALS"] = 2

\* the starters of side hold five or more who are not goalkeepers, and a
\* goalkeeper
FiveTakersAndKeeper(side) ==
    /\ Len(OutfieldPlayers(side)) >= SHOOTOUT_ROUNDS
    /\ get_goalkeeper(Team(side).lineup) # <<>>

\* C40: every lineup that passes the eleven-player check of simulate() has
\* five or more starters who are not goalkeepers, and a goalkeeper, and
\* resolve_shootout never indexes a list of takers out of range
C40_ShootoutNeverRaises ==
    /\ ~Unplayable => FiveTakersAndKeeper("A") /\ FiveTakersAndKeeper("B")
    /\ pc # "raised"

====
